---- MODULE Spec2Model ----
(***************************************************************************)
(* A model of pyGSTi's gauge-invariant gate set (objects/gigateset.py):    *)
(* the GaugeInvGateSet container and the functions that encode a real      *)
(* matrix into eigenvalue parameters, scale a reference vector, and encode *)
(* and decode the transition matrix between two eigenbases.                *)
(*                                                                         *)
(* Numbers.  The code computes in float64 / complex128.  The model         *)
(* computes exactly: a real is <<n, d, e>>, the value (n/d) * 10^e, kept   *)
(* in a canonical form (n/d in lowest terms, d > 0 coprime to 10, n not a  *)
(* multiple of 10).  The exponent keeps the code's 1e10 clamp and its      *)
(* 1e-10 threshold inside TLC's integer range.  d = 0 marks the values a   *)
(* float division by zero produces: <<1,0,0>> inf, <<-1,0,0>> -inf,        *)
(* <<0,0,0>> nan.  A complex number is <<re, im>>.  Round-off is not       *)
(* modelled: a result the code gets up to round-off, the model gets        *)
(* exactly.                                                                *)
(***************************************************************************)
EXTENDS Integers, Sequences, FiniteSets, TLC

----------------------------------------------------------------------------
(* Exact real arithmetic *)

\* A sequence given entry by entry, as the tuple of its entries.
Tup(f) == f \o <<>>

IAbs(n) == IF n < 0 THEN -n ELSE n

IMin(a, b) == IF a < b THEN a ELSE b

RECURSIVE Gcd(_, _)
Gcd(a, b) == IF b = 0 THEN a ELSE Gcd(b, a % b)

RECURSIVE Pow10(_)
Pow10(k) == IF k = 0 THEN 1 ELSE 10 * Pow10(k - 1)

RECURSIVE StripDen(_, _, _)
StripDen(n, d, e) ==
    IF d % 2 = 0 THEN StripDen(n * 5, d \div 2, e - 1)
    ELSE IF d % 5 = 0 THEN StripDen(n * 2, d \div 5, e - 1)
    ELSE <<n, d, e>>

RECURSIVE StripNum(_, _, _)
StripNum(n, d, e) ==
    IF n % 10 = 0 THEN StripNum(n \div 10, d, e + 1) ELSE <<n, d, e>>

\* (n/d) * 10^e for d > 0 with the common divisor g of n and d taken out
\* and the powers of 2 and 5 of the denominator moved into the exponent.
RLowest(n, d, e, g) == StripDen(n \div g, d \div g, e)

\* t = <<n, d, e>> with the trailing zeros of n moved into the exponent.
RTrim(t) == StripNum(t[1], t[2], t[3])

\* The canonical form of (n/d) * 10^e, d # 0.
RNorm(n, d, e) ==
    IF n = 0 THEN <<0, 1, 0>>
    ELSE RTrim(RLowest(IF d < 0 THEN -n ELSE n, IAbs(d), e,
                       Gcd(IAbs(n), IAbs(d))))

RZero == <<0, 1, 0>>
ROne == <<1, 1, 0>>
RInf == <<1, 0, 0>>
RNegInf == <<-1, 0, 0>>
RNaN == <<0, 0, 0>>

\* An integer, and a fraction of integers, as reals.
RInt(n) == RNorm(n, 1, 0)
RFrac(n, d) == RNorm(n, d, 0)

RIsFinite(a) == a[2] # 0
RIsNaN(a) == a = RNaN
RSign(a) == IF a[1] > 0 THEN 1 ELSE IF a[1] < 0 THEN -1 ELSE 0

RNeg(a) == <<-a[1], a[2], a[3]>>

RAbs(a) == <<IAbs(a[1]), a[2], a[3]>>

RAdd(a, b) ==
    IF ~RIsFinite(a) \/ ~RIsFinite(b)
    THEN IF RIsNaN(a) \/ RIsNaN(b) THEN RNaN
         ELSE IF ~RIsFinite(a) /\ ~RIsFinite(b) /\ a # b THEN RNaN
         ELSE IF ~RIsFinite(a) THEN a ELSE b
    ELSE IF a[1] = 0 THEN b
    ELSE IF b[1] = 0 THEN a
    ELSE LET e == IMin(a[3], b[3])
             na == a[1] * Pow10(a[3] - e)
             nb == b[1] * Pow10(b[3] - e)
         IN  RNorm(na * b[2] + nb * a[2], a[2] * b[2], e)

RSub(a, b) == RAdd(a, RNeg(b))

\* m * n * 10^e with the factors of 10 that m and n make together (a 2 in
\* one, a 5 in the other) moved into the exponent: <<m', n', e'>>.
RECURSIVE PairTens(_, _, _)
PairTens(m, n, e) ==
    IF m = 0 \/ n = 0 THEN <<m, n, e>>
    ELSE IF m % 5 = 0 /\ n % 2 = 0 THEN PairTens(m \div 5, n \div 2, e + 1)
    ELSE IF m % 2 = 0 /\ n % 5 = 0 THEN PairTens(m \div 2, n \div 5, e + 1)
    ELSE <<m, n, e>>

\* The product of the numerators of a and b (each first divided by what it
\* shares with the other's denominator: g1, g2), as <<m * n, e>>.
RMulNum(t) == <<t[1] * t[2], t[3]>>

\* a * b for finite a and b, with g1 = gcd(|a.n|, b.d), g2 = gcd(|b.n|, a.d)
RMulReduced(a, b, g1, g2) ==
    LET t == RMulNum(PairTens(a[1] \div g1, b[1] \div g2, a[3] + b[3]))
    IN  RNorm(t[1], (a[2] \div g2) * (b[2] \div g1), t[2])

RMul(a, b) ==
    IF ~RIsFinite(a) \/ ~RIsFinite(b)
    THEN IF RIsNaN(a) \/ RIsNaN(b) \/ a[1] = 0 \/ b[1] = 0 THEN RNaN
         ELSE IF RSign(a) * RSign(b) > 0 THEN RInf ELSE RNegInf
    ELSE RMulReduced(a, b, Gcd(IAbs(a[1]), b[2]), Gcd(IAbs(b[1]), a[2]))

\* 1.0 / a in float64: a zero divisor gives inf, an infinite one 0.
RInv(a) ==
    IF RIsNaN(a) THEN RNaN
    ELSE IF ~RIsFinite(a) THEN RZero
    ELSE IF a[1] = 0 THEN RInf
    ELSE RNorm(a[2], a[1], -a[3])

RDiv(a, b) == RMul(a, RInv(b))

\* (n1/d1)*10^e1 < (n2/d2)*10^e2 for positive finite operands, decided
\* without scaling either side up: L * 10^k < R  <=>  L <= (R-1) div 10^k.
RPosLess(a, b) ==
    LET L == a[1] * b[2]
        R == b[1] * a[2]
        k == a[3] - b[3]
    IN  IF k >= 0
        THEN k <= 9 /\ L <= (R - 1) \div Pow10(k)
        ELSE ~(-k <= 9 /\ R <= L \div Pow10(-k))

\* a < b; FALSE when either is nan.
RLess(a, b) ==
    IF RIsNaN(a) \/ RIsNaN(b) THEN FALSE
    ELSE IF ~RIsFinite(a) THEN a = RNegInf /\ b # RNegInf
    ELSE IF ~RIsFinite(b) THEN b = RInf
    ELSE IF RSign(a) # RSign(b) THEN RSign(a) < RSign(b)
    ELSE IF RSign(a) = 0 THEN FALSE
    ELSE IF RSign(a) > 0 THEN RPosLess(a, b)
    ELSE RPosLess(RNeg(b), RNeg(a))

RLeq(a, b) == ~RIsNaN(a) /\ ~RIsNaN(b) /\ ~RLess(b, a)

----------------------------------------------------------------------------
(* Exact complex arithmetic *)

Cx(re, im) == <<re, im>>
CReal(r) == <<r, RZero>>
CZero == CReal(RZero)
COne == CReal(ROne)
Re(z) == z[1]
Im(z) == z[2]

CAdd(a, b) == <<RAdd(a[1], b[1]), RAdd(a[2], b[2])>>
CSub(a, b) == <<RSub(a[1], b[1]), RSub(a[2], b[2])>>
CNeg(a) == <<RNeg(a[1]), RNeg(a[2])>>
CMul(a, b) ==
    <<RSub(RMul(a[1], b[1]), RMul(a[2], b[2])),
      RAdd(RMul(a[1], b[2]), RMul(a[2], b[1]))>>
CConj(a) == <<a[1], RNeg(a[2])>>
\* a or its conjugate
CConjIf(a, conj) == IF conj THEN CConj(a) ELSE a
CScale(r, a) == <<RMul(r, a[1]), RMul(r, a[2])>>
CIsFinite(a) == RIsFinite(a[1]) /\ RIsFinite(a[2])

\* |a|^2
CAbs2(a) == RAdd(RMul(a[1], a[1]), RMul(a[2], a[2]))

\* 1 / a (complex division); a zero divisor gives inf+nanj, an infinite
\* real divisor 0.
CInv(a) ==
    IF ~CIsFinite(a)
    THEN IF RIsFinite(a[2]) /\ ~RIsNaN(a[1]) THEN CZero ELSE <<RNaN, RNaN>>
    ELSE IF a = CZero THEN <<RInf, RNaN>>
    ELSE CScale(RInv(CAbs2(a)), CConj(a))

CDiv(a, b) == CMul(a, CInv(b))

\* numpy.isreal(z): the imaginary part is exactly zero
isreal(z) == z[2] = RZero

\* abs(z) < t for a real t >= 0, decided on the squares
AbsLess(z, t) == RLess(CAbs2(z), RMul(t, t))

\* numpy.isclose's default tolerances
RTOL == <<1, 1, -5>>
ATOL == <<1, 1, -8>>

\* numpy.isclose(a, b): abs(a - b) <= atol + rtol * abs(b) for finite
\* operands, equality otherwise.  With s = |a-b|^2, t = |b|^2 the test
\* sqrt(s) <= atol + rtol*sqrt(t) is decided without a square root: it holds
\* when s <= atol^2 or s <= rtol^2*t, fails when s exceeds both
\* (2*atol)^2 and (2*rtol)^2*t, and in between it is
\* u <= 0 \/ u^2 <= 4*atol^2*rtol^2*t for u = s - atol^2 - rtol^2*t.
\* Below A2 = atol^2 and R2t = rtol^2*t.
IsCloseBand(u, A2, R2t) ==
    RLeq(u, RZero) \/ RLeq(RMul(u, u), RMul(RInt(4), RMul(A2, R2t)))

IsCloseSq(s, A2, R2t) ==
    IF RLeq(s, A2) \/ RLeq(s, R2t) THEN TRUE
    ELSE IF RLess(RMul(RInt(4), A2), s) /\ RLess(RMul(RInt(4), R2t), s)
    THEN FALSE
    ELSE IsCloseBand(RSub(RSub(s, A2), R2t), A2, R2t)

isclose(a, b) ==
    IF ~CIsFinite(a) \/ ~CIsFinite(b)
    THEN a = b /\ ~RIsNaN(a[1]) /\ ~RIsNaN(a[2])
    ELSE IsCloseSq(CAbs2(CSub(a, b)), RMul(ATOL, ATOL),
                   RMul(RMul(RTOL, RTOL), CAbs2(b)))

\* The exact square root of a real that is the square of a model real.
ISqrt(n) == CHOOSE r \in 0..n : r * r = n
RSqrt(a) ==
    IF a[1] = 0 THEN RZero
    ELSE IF a[3] % 2 = 0
    THEN RNorm(ISqrt(a[1]), ISqrt(a[2]), a[3] \div 2)
    ELSE RNorm(ISqrt(a[1] * 10), ISqrt(a[2]), (a[3] - 1) \div 2)

----------------------------------------------------------------------------
(* Vectors and matrices: a vector is a sequence of complex numbers, a      *)
(* matrix the sequence of its rows.  The code indexes from 0, the model    *)
(* from 1.                                                                 *)

RECURSIVE CSumTo(_, _)
CSumTo(f, n) == IF n = 0 THEN CZero ELSE CAdd(CSumTo(f, n - 1), f[n])

\* numpy.dot of two matrices
MatMul(A, B) ==
    Tup([i \in 1..Len(A) |->
        Tup([j \in 1..Len(B[1]) |->
            CSumTo(Tup([k \in 1..Len(B) |-> CMul(A[i][k], B[k][j])]), Len(B))])])

\* numpy.dot of a matrix and a (column) vector
MatVec(A, v) ==
    Tup([i \in 1..Len(A) |->
        CSumTo(Tup([k \in 1..Len(v) |-> CMul(A[i][k], v[k])]), Len(v))])

\* numpy.dot(transpose(v), A): a row vector times a matrix
VecMat(v, A) ==
    Tup([j \in 1..Len(A[1]) |->
        CSumTo(Tup([k \in 1..Len(v) |-> CMul(v[k], A[k][j])]), Len(v))])

\* numpy.diag of a vector
Diag(v) ==
    Tup([i \in 1..Len(v) |-> Tup([j \in 1..Len(v) |-> IF i = j THEN v[i] ELSE CZero])])

Transpose(A) == Tup([j \in 1..Len(A[1]) |-> Tup([i \in 1..Len(A) |-> A[i][j]])])

\* A without row i and column j
Minor(A, i, j) ==
    Tup([r \in 1..(Len(A) - 1) |->
        Tup([c \in 1..(Len(A) - 1) |->
            A[IF r < i THEN r ELSE r + 1][IF c < j THEN c ELSE c + 1]])])

\* t or its negative
CSigned(t, negate) == IF negate THEN CNeg(t) ELSE t

RECURSIVE Det(_)
Det(A) ==
    IF Len(A) = 0 THEN COne
    ELSE IF Len(A) = 1 THEN A[1][1]
    ELSE CSumTo(Tup([j \in 1..Len(A) |->
                    CSigned(CMul(A[1][j], Det(Minor(A, 1, j))), j % 2 = 0)]),
                Len(A))

\* numpy.linalg.inv raises LinAlgError on a singular matrix
Singular(A) == Det(A) = CZero

\* The cofactors of A, transposed and multiplied by dinv = 1 / det(A)
Adjugate(A, dinv) ==
    Tup([i \in 1..Len(A) |->
        Tup([j \in 1..Len(A) |->
            CSigned(CMul(Det(Minor(A, j, i)), dinv), (i + j) % 2 = 1)])])

\* numpy.linalg.inv of a non-singular matrix: adjugate over determinant
MatInv(A) == Adjugate(A, CInv(Det(A)))

\* numpy.linalg.norm of column j of A
ColNorm(A, j) ==
    RSqrt(CSumTo(Tup([k \in 1..Len(A) |-> CReal(CAbs2(A[k][j]))]), Len(A))[1])

----------------------------------------------------------------------------
(* Python values.  A call either returns or raises: a result is a record   *)
(* whose field raised is "" or the name of the exception.  None is NoneV;  *)
(* an array or a number x that may be None is Some(x).                     *)

NoneV == [isNone |-> TRUE, a |-> <<>>]
Some(x) == [isNone |-> FALSE, a |-> x]
NoneInt == [isNone |-> TRUE, a |-> 0]

\* v[lo:] in place of v[lo:hi]: a slice that forgets its upper end.
Slice_open(v, lo, hi) ==
    IF lo >= Len(v) THEN <<>> ELSE SubSeq(v, lo + 1, Len(v))

\* v[lo:hi] of Python, lo and hi counted from 0 and cut to the length of v
Slice(v, lo, hi) ==
    LET h == IMin(hi, Len(v))
    IN  IF lo >= h THEN <<>> ELSE Tup([k \in 1..(h - lo) |-> v[lo + k]])

----------------------------------------------------------------------------
(* _parameterize_real_gate_mx *)

i_unit == Cx(RZero, ROne)

InPair(i, pairs) ==
    \E q \in 1..Len(pairs) : pairs[q][1] = i \/ pairs[q][2] = i

\* Lines 203-209: two real eigenvectors V, W of a degenerate real
\* eigenvalue become the conjugate pair V + iW, V - iW, each normalised.
\* Line 206: columns i and j become V + iW and V - iW
SynthColumns(evecs, i, j) ==
    Tup([k \in 1..Len(evecs) |-> Tup([c \in 1..Len(evecs) |->
        IF c = i THEN CAdd(evecs[k][i], CMul(i_unit, evecs[k][j]))
        ELSE IF c = j THEN CSub(evecs[k][i], CMul(i_unit, evecs[k][j]))
        ELSE evecs[k][c]])])

\* Line 206 when evecs is an array of floats: the assignment of a complex
\* column to it keeps the real part, so columns i and j both become V.
SynthColumnsCast(evecs, i, j) ==
    Tup([k \in 1..Len(evecs) |-> Tup([c \in 1..Len(evecs) |->
        IF c = i \/ c = j THEN CReal(Re(evecs[k][i])) ELSE evecs[k][c]])])

\* Columns i and j of E1 scaled by ni and nj
ScaleColumns(E1, i, j, ni, nj) ==
    Tup([k \in 1..Len(E1) |-> Tup([c \in 1..Len(E1) |->
        IF c = i THEN CScale(ni, E1[k][c])
        ELSE IF c = j THEN CScale(nj, E1[k][c])
        ELSE E1[k][c]])])

\* Lines 207-208: columns i and j divided by their norms
NormalizeColumns(E1, i, j) ==
    ScaleColumns(E1, i, j, RInv(ColNorm(E1, i)), RInv(ColNorm(E1, j)))

\* Line 192: numpy.linalg.eig of a real matrix returns arrays of complex
\* numbers when some eigenvalue has an imaginary part, and arrays of floats
\* when none has.
IsComplexArray(evals) == \E k \in 1..Len(evals) : ~isreal(evals[k])

SynthPair(evals, evecs, i, j) ==
    IF \A k \in 1..Len(evecs) : isreal(evecs[k][i]) /\ isreal(evecs[k][j])
    THEN NormalizeColumns(IF IsComplexArray(evals)
                          THEN SynthColumns(evecs, i, j)
                          ELSE SynthColumnsCast(evecs, i, j), i, j)
    ELSE evecs

\* Lines 198-209, the inner loop over j > i for one i.  There is no break:
\* after (i, j) is appended the scan goes on to the later j.
RECURSIVE ScanInner(_, _, _, _)
ScanInner(evals, st, i, j) ==
    IF j > Len(evals) THEN st
    ELSE IF InPair(j, st.pairs) THEN ScanInner(evals, st, i, j + 1)
    ELSE IF isclose(CConj(evals[i]), evals[j])
    THEN ScanInner(evals,
                   [pairs |-> Append(st.pairs, <<i, j>>),
                    evecs |-> IF isreal(evals[i])
                              THEN SynthPair(evals, st.evecs, i, j)
                              ELSE st.evecs],
                   i, j + 1)
    ELSE ScanInner(evals, st, i, j + 1)

\* Lines 195-209, the outer loop over i.
RECURSIVE ScanOuter(_, _, _)
ScanOuter(evals, st, i) ==
    IF i > Len(evals) THEN st
    ELSE IF InPair(i, st.pairs) THEN ScanOuter(evals, st, i + 1)
    ELSE ScanOuter(evals, ScanInner(evals, st, i, i + 1), i + 1)

\* Lines 227-230: the eigenvector indices put in slots k and k+1 for a
\* conjugate pair (i, j).  Both branches of the code assign i to k.
ConjSlots(evals, i, j) ==
    IF RLess(Im(evals[j]), Im(evals[i])) THEN <<i, j>> ELSE <<i, j>>

\* Lines 236-239: the same for a real pair (i, j).
RealSlots(evals, i, j) ==
    IF RLess(Re(evals[j]), Re(evals[i])) THEN <<i, j>> ELSE <<i, j>>

\* Lines 213-214
Remaining(d, pairs) ==
    SelectSeq(Tup([k \in 1..d |-> k]), LAMBDA k : ~InPair(k, pairs))

\* Line 218
RealPairs(remaining) ==
    Tup([q \in 1..(Len(remaining) \div 2) |->
        <<remaining[2 * q - 1], remaining[2 * q]>>])

\* Lines 222-230 with the sign kept: the second slot of a conjugate pair
\* holds the imaginary part itself.
EvalParam_signed(evals, cp, rp, remaining, k) ==
    LET q == (k + 1) \div 2
        first == k % 2 = 1
    IN  IF q <= Len(cp)
        THEN LET i == cp[q][1]
             IN  IF first THEN Re(evals[i]) ELSE Im(evals[i])
        ELSE IF q - Len(cp) <= Len(rp)
        THEN LET i == rp[q - Len(cp)][1]
                 j == rp[q - Len(cp)][2]
                 half == RFrac(1, 2)
             IN  IF first
                 THEN RMul(RAdd(Re(evals[i]), Re(evals[j])), half)
                 ELSE RMul(RAbs(RSub(Re(evals[i]), Re(evals[j]))), half)
        ELSE Re(evals[remaining[Len(remaining)]])

\* Lines 222-248: the parameter written to slot k (from 1).
EvalParam(evals, cp, rp, remaining, k) ==
    LET q == (k + 1) \div 2
        first == k % 2 = 1
    IN  IF q <= Len(cp)
        THEN LET i == cp[q][1]
             IN  IF first THEN Re(evals[i]) ELSE RNeg(RAbs(Im(evals[i])))
        ELSE IF q - Len(cp) <= Len(rp)
        THEN LET i == rp[q - Len(cp)][1]
                 j == rp[q - Len(cp)][2]
                 half == RFrac(1, 2)
             IN  IF first
                 THEN RMul(RAdd(Re(evals[i]), Re(evals[j])), half)
                 ELSE RMul(RAbs(RSub(Re(evals[i]), Re(evals[j]))), half)
        ELSE Re(evals[remaining[Len(remaining)]])

\* Lines 223-247: the index of the eigenvector moved to slot k (from 1).
SlotSource(evals, cp, rp, remaining, k) ==
    LET q == (k + 1) \div 2
        pos == IF k % 2 = 1 THEN 1 ELSE 2
    IN  IF q <= Len(cp)
        THEN ConjSlots(evals, cp[q][1], cp[q][2])[pos]
        ELSE IF q - Len(cp) <= Len(rp)
        THEN RealSlots(evals, rp[q - Len(cp)][1], rp[q - Len(cp)][2])[pos]
        ELSE remaining[Len(remaining)]

\* Line 225-247: permMx[r][k] = 1 where eigenvector r goes to slot k
PermMx(slot) ==
    Tup([r \in 1..Len(slot) |-> Tup([k \in 1..Len(slot) |->
        IF slot[k] = r THEN COne ELSE CZero])])

\* Lines 220-259 when every write is in range: the parameters, and the
\* eigenvectors permuted
parameterize_permuted(evals, evecs, cp, rp, remaining, slot) ==
    [raised |-> "",
     D |-> Tup([k \in 1..Len(evals) |-> EvalParam(evals, cp, rp, remaining, k)]),
     Y |-> MatMul(evecs, PermMx(slot)),
     pairs |-> cp, real_pairs |-> rp, slot |-> slot]

\* Line 215 without the assertion: the remaining eigenvalues are taken to
\* be real whatever they are.
parameterize_unchecked(evals, evecs, cp, remaining) ==
    LET d == Len(evals)
        rp == RealPairs(remaining)
    IN  IF 2 * Len(cp) + Len(remaining) > d
        THEN [raised |-> "IndexError", D |-> <<>>, Y |-> <<>>,
              pairs |-> cp, real_pairs |-> rp, slot |-> <<>>]
        ELSE parameterize_permuted(evals, evecs, cp, rp, remaining,
                 Tup([k \in 1..d |-> SlotSource(evals, cp, rp, remaining, k)]))

\* Lines 211-259, after the scan for conjugate pairs cp has rewritten evecs.
\* The slots written are 2 per conjugate pair, then 2 per real pair, then
\* 1 for a leftover: a write past slot d (an index that is in two pairs)
\* raises IndexError.
parameterize_paired(evals, evecs, cp, remaining) ==
    LET d == Len(evals)
        rp == RealPairs(remaining)
    IN  IF \E q \in 1..Len(remaining) : ~isreal(evals[remaining[q]])
        THEN [raised |-> "AssertionError", D |-> <<>>, Y |-> <<>>,
              pairs |-> cp, real_pairs |-> <<>>, slot |-> <<>>]
        ELSE IF 2 * Len(cp) + Len(remaining) > d
        THEN [raised |-> "IndexError", D |-> <<>>, Y |-> <<>>,
              pairs |-> cp, real_pairs |-> rp, slot |-> <<>>]
        ELSE parameterize_permuted(evals, evecs, cp, rp, remaining,
                 Tup([k \in 1..d |-> SlotSource(evals, cp, rp, remaining, k)]))

\* Lines 211-259 on the outcome st of the scan of lines 195-209
parameterize_scanned(evals, st) ==
    parameterize_paired(evals, st.evecs, st.pairs,
                        Remaining(Len(evals), st.pairs))

\* _parameterize_real_gate_mx, from the eigenvalues and eigenvectors e that
\* numpy.linalg.eig returned (line 192).
parameterize_from_eig(e) ==
    parameterize_scanned(e.evals,
        ScanOuter(e.evals, [pairs |-> <<>>, evecs |-> e.evecs], 1))

----------------------------------------------------------------------------
(* _get_delta0_diag and _get_ET_params *)

\* The threshold below which a scaling denominator counts as zero, and the
\* inverse scale used instead of dividing by it.
NEAR_ZERO == <<1, 1, -10>>
CLAMP == <<1, 1, 10>>

\* The number of (k, k+1) pairs of a parameter list of length d:
\* the length of range(0, d-1, 2).  Pair q holds slots 2q-1 and 2q (from 1).
NPairs(d) == d \div 2

\* The tag of pair q of a parameter list: b <= 0 marks a conjugate pair.
IsConjTag(params, q) == RLeq(params[2 * q], RZero)

\* The pair a slot belongs to; the leftover slot of an odd d counts as
\* pair NPairs(d) + 1.
PairOf(k) == (k + 1) \div 2

\* Lines 286, 295, 310: the assertion guarding slot pair q (or the leftover
\* slot when q = NPairs(d) + 1) fails.
Delta0AssertFails(rho_tilde, D0_params, q) ==
    LET i == 2 * q - 1
    IN  IF q > NPairs(Len(D0_params)) THEN ~isreal(rho_tilde[i])
        ELSE IF IsConjTag(D0_params, q)
        THEN ~isclose(rho_tilde[i], CConj(rho_tilde[i + 1]))
        ELSE ~(isreal(rho_tilde[i]) /\ isreal(rho_tilde[i + 1]))

\* inv_delta0_diag[k] without the near-zero guard: every slot divides.
InvDelta0_unguarded(rho_tilde, D0_params, k) ==
    LET q == PairOf(k)
        i == 2 * q - 1
    IN  IF q > NPairs(Len(D0_params)) THEN CReal(RInv(Re(rho_tilde[i])))
        ELSE IF IsConjTag(D0_params, q)
        THEN CConjIf(CDiv(COne, rho_tilde[i]), k # i)
        ELSE CReal(RInv(Re(rho_tilde[i])))

\* Lines 287-315: inv_delta0_diag[k] (k from 1).
InvDelta0(rho_tilde, D0_params, k) ==
    LET q == PairOf(k)
        i == 2 * q - 1
    IN  IF q > NPairs(Len(D0_params))
        THEN IF AbsLess(rho_tilde[i], NEAR_ZERO) THEN CReal(CLAMP)
             ELSE CReal(RInv(Re(rho_tilde[i])))
        ELSE IF IsConjTag(D0_params, q)
        THEN CConjIf(IF AbsLess(rho_tilde[i], NEAR_ZERO) THEN CReal(CLAMP)
                     ELSE CDiv(COne, rho_tilde[i]),
                     k # i)
        ELSE IF k = i
        THEN IF AbsLess(rho_tilde[i], NEAR_ZERO) THEN CReal(CLAMP)
             ELSE CReal(RInv(Re(rho_tilde[i])))
        ELSE IF AbsLess(rho_tilde[i + 1], NEAR_ZERO) THEN CReal(CLAMP)
             ELSE CReal(RInv(Re(rho_tilde[i])))

\* Lines 287, 296, 302, 311: slot k prints a near-zero warning.
Delta0Warns(rho_tilde, D0_params, k) ==
    LET q == PairOf(k)
        i == 2 * q - 1
    IN  IF q <= NPairs(Len(D0_params)) /\ IsConjTag(D0_params, q)
        THEN k = i /\ AbsLess(rho_tilde[i], NEAR_ZERO)
        ELSE AbsLess(rho_tilde[k], NEAR_ZERO)

\* _get_delta0_diag from the set bad of the pairs whose assertion fails and
\* inv_delta0_diag: the pairs are handled in order, so a warning is printed
\* only for a slot before the first failing assertion.  val is
\* delta0_diag = 1.0 / inv_delta0_diag (line 316).
delta0_diag_result(rho_tilde, D0_params, bad, inv) ==
    LET d == Len(D0_params)
        done == {k \in 1..d : \A q \in bad : PairOf(k) < q}
    IN  [raised |-> IF bad = {} THEN "" ELSE "AssertionError",
         warned |-> \E k \in done : Delta0Warns(rho_tilde, D0_params, k),
         inv |-> IF bad = {} THEN inv ELSE <<>>,
         val |-> IF bad = {} THEN Tup([k \in 1..d |-> CDiv(COne, inv[k])])
                 ELSE <<>>]

\* _get_delta0_diag(rho_tilde, D0_params)
get_delta0_diag(rho_tilde, D0_params) ==
    delta0_diag_result(rho_tilde, D0_params,
        {q \in 1..((Len(D0_params) + 1) \div 2) :
            Delta0AssertFails(rho_tilde, D0_params, q)},
        Tup([k \in 1..Len(D0_params) |->
            InvDelta0(rho_tilde, D0_params, k)]))

\* Lines 330, 336, 343: the assertion guarding pair q of ET_tilde fails.
ETAssertFails(ET_tilde, D0_params, q) ==
    LET i == 2 * q - 1
    IN  IF q > NPairs(Len(D0_params)) THEN ~isreal(ET_tilde[i])
        ELSE IF IsConjTag(D0_params, q)
        THEN ~isclose(ET_tilde[i], CConj(ET_tilde[i + 1]))
        ELSE ~(isreal(ET_tilde[i]) /\ isreal(ET_tilde[i + 1]))

\* E_params[k] with the imaginary part of a conjugate pair stored as a
\* magnitude, the way eval_params stores it.
ETParam_abs(ET_tilde, D0_params, k) ==
    LET q == PairOf(k)
        i == 2 * q - 1
        half == RFrac(1, 2)
    IN  IF q > NPairs(Len(D0_params)) THEN Re(ET_tilde[i])
        ELSE IF IsConjTag(D0_params, q)
        THEN IF k = i THEN Re(ET_tilde[i]) ELSE RAbs(Im(ET_tilde[i]))
        ELSE IF k = i
        THEN RMul(RAdd(Re(ET_tilde[i]), Re(ET_tilde[i + 1])), half)
        ELSE RMul(RSub(Re(ET_tilde[i]), Re(ET_tilde[i + 1])), half)

\* Lines 331-344: E_params[k] (k from 1).
ETParam(ET_tilde, D0_params, k) ==
    LET q == PairOf(k)
        i == 2 * q - 1
        half == RFrac(1, 2)
    IN  IF q > NPairs(Len(D0_params)) THEN Re(ET_tilde[i])
        ELSE IF IsConjTag(D0_params, q)
        THEN IF k = i THEN Re(ET_tilde[i]) ELSE Im(ET_tilde[i])
        ELSE IF k = i
        THEN RMul(RAdd(Re(ET_tilde[i]), Re(ET_tilde[i + 1])), half)
        ELSE RMul(RSub(Re(ET_tilde[i]), Re(ET_tilde[i + 1])), half)

\* _get_ET_params(ET_tilde, D0_params)
get_ET_params(ET_tilde, D0_params) ==
    LET d == Len(D0_params)
        nq == (d + 1) \div 2
    IN  IF \E q \in 1..nq : ETAssertFails(ET_tilde, D0_params, q)
        THEN [raised |-> "AssertionError", val |-> <<>>]
        ELSE [raised |-> "",
              val |-> Tup([k \in 1..d |-> ETParam(ET_tilde, D0_params, k)])]

\* _get_ETilde_vector(E_params, D0_params), lines 746-767: E_tilde[k].
\* A pair of E_params cut short by a slice (fewer than 2 values left)
\* cannot be unpacked.
ETildeEntry(E_params, D0_params, k) ==
    LET q == PairOf(k)
        i == 2 * q - 1
    IN  IF q > NPairs(Len(D0_params)) THEN CReal(E_params[k])
        ELSE IF IsConjTag(D0_params, q)
        THEN IF k = i THEN Cx(E_params[i], E_params[i + 1])
             ELSE Cx(E_params[i], RNeg(E_params[i + 1]))
        ELSE IF k = i THEN CReal(RAdd(E_params[i], E_params[i + 1]))
             ELSE CReal(RSub(E_params[i], E_params[i + 1]))

----------------------------------------------------------------------------
(* _get_B_params *)

\* Lines 367-422: inv_deltaj_diag[k] (k from 1); the denominators are the
\* diagonal entries of invYjY0.
InvDeltaJ(M, Dj_params, k) ==
    LET q == PairOf(k)
        i == 2 * q - 1
    IN  IF q <= NPairs(Len(Dj_params)) /\ IsConjTag(Dj_params, q)
        THEN CConjIf(IF AbsLess(M[i][i], NEAR_ZERO) THEN CReal(CLAMP)
                     ELSE CDiv(COne, M[i][i]),
                     k # i)
        ELSE IF AbsLess(M[k][k], NEAR_ZERO) THEN CReal(CLAMP)
             ELSE CReal(RInv(Re(M[k][k])))

\* Lines 367, 389, 395, 418: slot k prints a near-zero warning.
DeltaJWarns(M, Dj_params, k) ==
    LET q == PairOf(k)
        i == 2 * q - 1
    IN  IF q <= NPairs(Len(Dj_params)) /\ IsConjTag(Dj_params, q)
        THEN k = i /\ AbsLess(M[i][i], NEAR_ZERO)
        ELSE AbsLess(M[k][k], NEAR_ZERO)

\* Lines 378-417: the assertions on the diagonal tile of pair q of invYjY0
\* (the leftover slot when q = NPairs(d) + 1) fail.
DeltaJAssertFails(M, Dj_params, D0_params, q) ==
    LET i == 2 * q - 1
    IN  IF q > NPairs(Len(Dj_params)) THEN ~isreal(M[i][i])
        ELSE IF IsConjTag(Dj_params, q)
        THEN IF IsConjTag(D0_params, q)
             THEN ~(isclose(M[i][i], CConj(M[i + 1][i + 1]))
                    /\ isclose(M[i + 1][i], CConj(M[i][i + 1])))
             ELSE ~(isclose(M[i][i], CConj(M[i + 1][i]))
                    /\ isclose(M[i][i + 1], CConj(M[i + 1][i + 1])))
        ELSE IF IsConjTag(D0_params, q)
             THEN ~(isclose(M[i][i], CConj(M[i][i + 1]))
                    /\ isclose(M[i + 1][i], CConj(M[i + 1][i + 1])))
             ELSE ~(isreal(M[i][i]) /\ isreal(M[i + 1][i + 1]))

\* Lines 433 and 612: the tag used for the columns of the tile at row pair
\* q, column pair l.  The code reads D0_params[i:i+2] with the row index i.
TileColIsConj(D0_params, q, l) == IsConjTag(D0_params, q)

\* Lines 438-495: the assertions on the tile at row pair q, column pair l of
\* B0j fail.
TileAssertFails(B, Dj_params, D0_params, q, l) ==
    LET i == 2 * q - 1
        j == 2 * l - 1
    IN  IF IsConjTag(Dj_params, q)
        THEN \/ IF TileColIsConj(D0_params, q, l)
                THEN ~(isclose(B[i][j], CConj(B[i + 1][j + 1]))
                       /\ isclose(B[i + 1][j], CConj(B[i][j + 1])))
                ELSE ~(isclose(B[i][j], CConj(B[i + 1][j]))
                       /\ isclose(B[i][j + 1], CConj(B[i + 1][j + 1])))
             \/ (q = l /\ ~isclose(B[i][j], COne))
        ELSE IF TileColIsConj(D0_params, q, l)
        THEN \/ ~(isclose(B[i][j], CConj(B[i][j + 1]))
                  /\ isclose(B[i + 1][j], CConj(B[i + 1][j + 1])))
             \/ (q = l /\ ~(isclose(CReal(Re(B[i][j])), COne)
                            /\ isclose(CReal(Re(B[i + 1][j])), COne)))
        ELSE \/ ~(isreal(B[i][j]) /\ isreal(B[i][j + 1])
                  /\ isreal(B[i + 1][j]) /\ isreal(B[i + 1][j + 1]))
             \/ (q = l /\ ~isclose(B[i][j], COne))

\* The tile parameters without the shortening of the diagonal tiles (whose
\* first entry is fixed to 1): 4 values for every tile.
TileParams_full(B, Dj_params, D0_params, q, l) ==
    LET i == 2 * q - 1
        j == 2 * l - 1
    IN  IF IsConjTag(Dj_params, q)
        THEN <<Re(B[i][j]), Im(B[i][j]), Re(B[i][j + 1]), Im(B[i][j + 1])>>
        ELSE IF TileColIsConj(D0_params, q, l)
        THEN <<Re(B[i][j]), Im(B[i][j]), Re(B[i + 1][j]), Im(B[i + 1][j])>>
        ELSE <<Re(B[i][j]), Re(B[i][j + 1]),
               Re(B[i + 1][j]), Re(B[i + 1][j + 1])>>

\* Lines 453-494: B0j_params[q, l], the parameters of the tile at row pair
\* q, column pair l: 4 values off the diagonal, 2 on it.
TileParams(B, Dj_params, D0_params, q, l) ==
    LET i == 2 * q - 1
        j == 2 * l - 1
    IN  IF IsConjTag(Dj_params, q)
        THEN IF q # l
             THEN <<Re(B[i][j]), Im(B[i][j]), Re(B[i][j + 1]), Im(B[i][j + 1])>>
             ELSE <<Re(B[i][j + 1]), Im(B[i][j + 1])>>
        ELSE IF TileColIsConj(D0_params, q, l)
        THEN IF q # l
             THEN <<Re(B[i][j]), Im(B[i][j]), Re(B[i + 1][j]), Im(B[i + 1][j])>>
             ELSE <<Im(B[i][j]), Im(B[i + 1][j])>>
        ELSE IF q # l
             THEN <<Re(B[i][j]), Re(B[i][j + 1]),
                    Re(B[i + 1][j]), Re(B[i + 1][j + 1])>>
             ELSE <<Re(B[i][j + 1]), Re(B[i + 1][j])>>

\* Lines 553-559: the tiles concatenated row-major; tile number t counts
\* from 0, tile t is at row pair t div n + 1, column pair t mod n + 1.
RECURSIVE ConcatTiles(_, _, _, _, _)
ConcatTiles(B, Dj_params, D0_params, n, t) ==
    IF t = 0 THEN <<>>
    ELSE ConcatTiles(B, Dj_params, D0_params, n, t - 1)
         \o TileParams(B, Dj_params, D0_params,
                       ((t - 1) \div n) + 1, ((t - 1) % n) + 1)

\* Lines 424-573 on B0j = diag(inv_deltaj_diag) * invYjY0, where bad
\* is the set of the diagonal pairs whose assertion fails.  For an odd
\* d >= 3 the final-row loop starts with a2,b2 = D0_params[i:i+2] for
\* i = d-1 (line 501), a slice of one value: the unpacking raises
\* ValueError, so the final-row and final-column tiles are never produced.
\* For d = 1 both loops are empty and only the assertion of line 545 is left.
B_params_tiles(Dj_params, D0_params, bad, warned, B0j) ==
    LET d == Len(Dj_params)
        n == NPairs(d)
        fail(r) == [raised |-> r, warned |-> warned, val |-> <<>>]
    IN  IF bad # {} THEN fail("AssertionError")
        ELSE IF \E q, l \in 1..n :
                    TileAssertFails(B0j, Dj_params, D0_params, q, l)
        THEN fail("AssertionError")
        ELSE IF d % 2 = 1 /\ d >= 3 THEN fail("ValueError")
        ELSE IF d % 2 = 1 /\ ~isclose(B0j[d][d], COne)
        THEN fail("AssertionError")
        ELSE [raised |-> "", warned |-> warned,
              val |-> ConcatTiles(B0j, Dj_params, D0_params, n, n * n)]

\* Lines 359-422: the warnings printed by the loop over the diagonal; a
\* pair's warning is printed before its assertions, the leftover slot's
\* after its assertion.
DeltaJWarned(invYjY0, Dj_params, bad) ==
    LET d == Len(Dj_params)
        done == {k \in 1..d : \A q \in bad :
                    PairOf(k) < q \/ (PairOf(k) = q /\ q <= NPairs(d))}
    IN  \E k \in done : DeltaJWarns(invYjY0, Dj_params, k)

\* Lines 359-573, after the assertion of line 353
B_params_scaled(invYjY0, Dj_params, D0_params, bad) ==
    B_params_tiles(Dj_params, D0_params, bad,
        DeltaJWarned(invYjY0, Dj_params, bad),
        MatMul(Diag(Tup([k \in 1..Len(Dj_params) |->
                        InvDeltaJ(invYjY0, Dj_params, k)])),
               invYjY0))

\* _get_B_params(invYjY0, Dj_params, D0_params)
get_B_params(invYjY0, Dj_params, D0_params) ==
    IF Len(Dj_params) # Len(D0_params) THEN
        [raised |-> "AssertionError", warned |-> FALSE, val |-> <<>>]
    ELSE B_params_scaled(invYjY0, Dj_params, D0_params,
            {q \in 1..((Len(Dj_params) + 1) \div 2) :
                DeltaJAssertFails(invYjY0, Dj_params, D0_params, q)})

----------------------------------------------------------------------------
(* _constructDj and _deparameterize_real_gate_mx *)

\* _constructDj(Dj_params), lines 576-589: the diagonal Dj_diag[k].
DjDiagEntry(Dj_params, k) ==
    LET q == PairOf(k)
        i == 2 * q - 1
    IN  IF q > NPairs(Len(Dj_params)) THEN CReal(Dj_params[k])
        ELSE LET a == Dj_params[i]
                 b == Dj_params[i + 1]
             IN  IF RLeq(b, RZero)
                 THEN IF k = i THEN Cx(a, RNeg(b)) ELSE Cx(a, b)
                 ELSE IF k = i THEN CReal(RAdd(a, b)) ELSE CReal(RSub(a, b))

constructDj(Dj_params) ==
    Diag(Tup([k \in 1..Len(Dj_params) |-> DjDiagEntry(Dj_params, k)]))

\* Line 617-619: the offset into B0j_params of the tile at row pair q,
\* column pair l, of n pairs: tiles are consumed row-major, 2 values for
\* a diagonal tile and 4 for any other.
TileOffset(n, q, l) ==
    (q - 1) * (4 * n - 2) + 4 * (l - 1) - (IF l > q THEN 2 ELSE 0)

TileSize(q, l) == IF q = l THEN 2 ELSE 4

\* Lines 621-677: entry (r, c) of B0j inside the tile at row pair q, column
\* pair l, rebuilt from the tile's parameters p.
TileEntry(Dj_params, D0_params, p, q, l, r, c) ==
    LET top == r = 2 * q - 1
        left == c = 2 * l - 1
    IN  IF IsConjTag(Dj_params, q)
        THEN LET a == IF q = l THEN COne ELSE Cx(p[1], p[2])
                 b == IF q = l THEN Cx(p[1], p[2]) ELSE Cx(p[3], p[4])
             IN  IF TileColIsConj(D0_params, q, l)
                 THEN IF top THEN (IF left THEN a ELSE b)
                      ELSE (IF left THEN CConj(b) ELSE CConj(a))
                 ELSE IF top THEN (IF left THEN a ELSE b)
                      ELSE (IF left THEN CConj(a) ELSE CConj(b))
        ELSE IF TileColIsConj(D0_params, q, l)
        THEN LET a == IF q = l THEN Cx(ROne, p[1]) ELSE Cx(p[1], p[2])
                 b == IF q = l THEN Cx(ROne, p[2]) ELSE Cx(p[3], p[4])
             IN  IF top THEN (IF left THEN a ELSE CConj(a))
                 ELSE (IF left THEN b ELSE CConj(b))
        ELSE LET a == IF q = l THEN ROne ELSE p[1]
                 b == IF q = l THEN p[1] ELSE p[2]
                 c2 == IF q = l THEN p[2] ELSE p[3]
                 d2 == IF q = l THEN ROne ELSE p[4]
             IN  IF top THEN (IF left THEN CReal(a) ELSE CReal(b))
                 ELSE (IF left THEN CReal(c2) ELSE CReal(d2))

\* Lines 602-727: B0j rebuilt from the flat array (even d, or d = 1).
RebuildB0j(Dj_params, D0_params, B0j_params) ==
    LET d == Len(Dj_params)
        n == NPairs(d)
    IN  Tup([r \in 1..d |-> Tup([c \in 1..d |->
            IF r > 2 * n THEN COne
            ELSE LET q == PairOf(r)
                     l == PairOf(c)
                     off == TileOffset(n, q, l)
                 IN  TileEntry(Dj_params, D0_params,
                               Slice(B0j_params, off, off + TileSize(q, l)),
                               q, l, r, c)])])

\* Lines 739-743: mx must be real, and its real part is returned.
deparameterize_real(mx) ==
    IF \E r, c \in 1..Len(mx) : ~isreal(mx[r][c])
    THEN [raised |-> "AssertionError", val |-> <<>>]
    ELSE [raised |-> "",
          val |-> Tup([r \in 1..Len(mx) |-> Tup([c \in 1..Len(mx) |->
                      CReal(Re(mx[r][c]))])])]

\* Lines 730-743 on invYj = B0j * inv(Y0) (line 729)
deparameterize_inverted(Dj_params, invYj) ==
    IF Singular(invYj) THEN [raised |-> "LinAlgError", val |-> <<>>]
    ELSE deparameterize_real(
             MatMul(MatInv(invYj), MatMul(constructDj(Dj_params), invYj)))

\* _deparameterize_real_gate_mx(Dj_params, D0_params, B0j_params, Y0).
\* Dj_params and D0_params are arrays; B0j_params is an array or None.
\* A tile whose slice of B0j_params is short cannot be unpacked
\* (ValueError); for an odd d >= 3 line 683 unpacks a slice of one value
\* (ValueError).  val is the real part of mx.
deparameterize_real_gate_mx(Dj_params, D0_params, B0j_params, Y0) ==
    LET d == Len(Dj_params)
        n == NPairs(d)
        fail(r) == [raised |-> r, val |-> <<>>]
    IN  IF Len(Dj_params) # Len(D0_params) THEN fail("AssertionError")
        ELSE IF n > 0 /\ B0j_params.isNone THEN fail("TypeError")
        ELSE IF \E q, l \in 1..n :
                   Len(B0j_params.a) < TileOffset(n, q, l) + TileSize(q, l)
        THEN fail("ValueError")
        ELSE IF d % 2 = 1 /\ d >= 3 THEN fail("ValueError")
        ELSE IF Singular(Y0) THEN fail("LinAlgError")
        ELSE IF Len(Y0) # d THEN fail("ValueError")
        ELSE deparameterize_inverted(Dj_params,
                 MatMul(RebuildB0j(Dj_params, D0_params, B0j_params.a),
                        MatInv(Y0)))

----------------------------------------------------------------------------
(* The gate sets given to from_gateset.                                    *)
(*                                                                         *)
(* numpy.linalg.eig is a library call.  The model takes its result for a   *)
(* matrix from EigPool: the eigenvalues in the order the solver returns    *)
(* them (for a diagonal matrix the order of the diagonal; a conjugate pair *)
(* with the positive imaginary part first) and one eigenvector per column. *)
(* The solver's eigenvectors have norm 1; an eigenvector is fixed only up  *)
(* to a factor, and the pool holds a representative with rational entries. *)
(* The matrix of a pool entry is computed from it as V * diag(w) * inv(V). *)

Z(n) == CReal(RInt(n))
ZI(a, b) == Cx(RInt(a), RInt(b))

EigPool ==
    << \* 1: [[0,-1],[1,0]], eigenvalues i, -i
       [evals |-> <<ZI(0, 1), ZI(0, -1)>>,
        evecs |-> << <<Z(1), Z(1)>>, <<ZI(0, -1), ZI(0, 1)>> >>],
       \* 2: [[2,-1],[1,2]] (up to the basis), eigenvalues 2+i, 2-i
       [evals |-> <<ZI(2, 1), ZI(2, -1)>>,
        evecs |-> << <<Z(2), Z(2)>>, <<ZI(1, -1), ZI(1, 1)>> >>],
       \* 3: diag(1, 2): a real pair, the smaller eigenvalue first
       [evals |-> <<Z(1), Z(2)>>,
        evecs |-> << <<Z(1), Z(0)>>, <<Z(0), Z(1)>> >>],
       \* 4: diag(2, 1): a real pair, the larger eigenvalue first
       [evals |-> <<Z(2), Z(1)>>,
        evecs |-> << <<Z(1), Z(0)>>, <<Z(0), Z(1)>> >>],
       \* 5: 2 * identity: a degenerate real eigenvalue, real eigenvectors
       [evals |-> <<Z(2), Z(2)>>,
        evecs |-> << <<Z(3), Z(0)>>, <<Z(0), Z(4)>> >>],
       \* 6: [[3,1],[1,3]]: a real pair 4, 2 with eigenvectors (1,1), (-1,1)
       [evals |-> <<Z(4), Z(2)>>,
        evecs |-> << <<Z(1), Z(-1)>>, <<Z(1), Z(1)>> >>],
       \* 7, 8: 1 x 1
       [evals |-> <<Z(3)>>, evecs |-> << <<Z(1)>> >>],
       [evals |-> <<CReal(RFrac(1, 2))>>, evecs |-> << <<Z(1)>> >>],
       \* 9: rotation block plus 2: i, -i, 2
       [evals |-> <<ZI(0, 1), ZI(0, -1), Z(2)>>,
        evecs |-> << <<Z(1), Z(1), Z(0)>>,
                     <<ZI(0, -1), ZI(0, 1), Z(0)>>,
                     <<Z(0), Z(0), Z(1)>> >>],
       \* 10: diag(3, 1, 2): a real pair and a leftover
       [evals |-> <<Z(3), Z(1), Z(2)>>,
        evecs |-> << <<Z(1), Z(0), Z(0)>>,
                     <<Z(0), Z(1), Z(0)>>,
                     <<Z(0), Z(0), Z(1)>> >>],
       \* 11: 5 * identity (3 x 3): a triple eigenvalue
       [evals |-> <<Z(5), Z(5), Z(5)>>,
        evecs |-> << <<Z(3), Z(0), Z(0)>>,
                     <<Z(0), Z(4), Z(0)>>,
                     <<Z(0), Z(0), Z(1)>> >>],
       \* 12: [[3,0],[2,1]]: lower triangular, eigenvalues 1, 3 with
       \* eigenvectors (0,1), (1,1)
       [evals |-> <<Z(1), Z(3)>>,
        evecs |-> << <<Z(0), Z(1)>>, <<Z(1), Z(1)>> >>] >>

\* The real matrix of pool entry g.
GateFromEig(e) == MatMul(e.evecs, MatMul(Diag(e.evals), MatInv(e.evecs)))

GateMx(g) == GateFromEig(EigPool[g])

GateMxs == Tup([g \in 1..Len(EigPool) |-> GateMx(g)])

\* numpy.linalg.eig(mx), line 192
eig(mx) == EigPool[CHOOSE g \in 1..Len(EigPool) : GateMxs[g] = mx]

\* _parameterize_real_gate_mx(real_gate_mx), lines 185-259
parameterize_real_gate_mx(real_gate_mx) ==
    parameterize_from_eig(eig(real_gate_mx))

\* The largest number of gates in a gate set given to from_gateset.
MaxGates == 2

Labels == <<"Gi", "Gx", "Gy", "Gz">>

TINY12 == <<1, 1, -12>>

\* The (rhoVec, EVec) pairs, real vectors of the gates' dimension.
SpamPool ==
    << [rho |-> <<Z(1), Z(1)>>, E |-> <<Z(1), Z(0)>>],
       [rho |-> <<Z(1), Z(2)>>, E |-> <<CReal(RFrac(1, 2)), Z(1)>>],
       [rho |-> <<CReal(TINY12), Z(0)>>, E |-> <<Z(1), Z(1)>>],
       [rho |-> <<Z(0), Z(2)>>, E |-> <<Z(1), Z(1)>>],
       [rho |-> <<Z(2)>>, E |-> <<Z(1)>>],
       [rho |-> <<CReal(TINY12)>>, E |-> <<Z(1)>>],
       [rho |-> <<Z(1), Z(1), Z(1)>>, E |-> <<Z(1), Z(0), Z(1)>>] >>

\* The gate sets: <<pool entries of the gates in label order, SpamPool entry>>
GateSetList ==
    << <<<<1>>, 1>>, <<<<1>>, 3>>, <<<<4>>, 1>>, <<<<3>>, 1>>, <<<<4>>, 2>>,
       <<<<5>>, 1>>, <<<<1, 2>>, 1>>, <<<<1, 2>>, 2>>, <<<<1, 4>>, 1>>,
       <<<<1, 3>>, 1>>, <<<<4, 1>>, 1>>, <<<<4, 3>>, 1>>, <<<<2, 1>>, 2>>,
       <<<<6, 4>>, 4>>, <<<<1, 6>>, 2>>, <<<<12, 12>>, 1>>, <<<<12, 4>>, 2>>,
       <<<<7>>, 5>>, <<<<7, 8>>, 5>>, <<<<7, 8>>, 6>>,
       <<<<9>>, 7>>, <<<<10>>, 7>>, <<<<11>>, 7>>, <<<<9, 10>>, 7>>,
       <<<<9, 11>>, 7>>,
       <<<<1, 2, 4>>, 1>>, <<<<12, 12, 4>>, 2>>, <<<<7, 8, 7>>, 5>>,
       <<<<9, 11, 9>>, 7>>,
       <<<<1, 2, 4, 1>>, 1>>, <<<<7, 8, 7, 8>>, 5>> >>

GateSet(c) ==
    LET gl == GateSetList[c]
    IN  [dim |-> Len(SpamPool[gl[2]].rho),
         labels |-> Tup([i \in 1..Len(gl[1]) |-> Labels[i]]),
         gates |-> Tup([i \in 1..Len(gl[1]) |-> GateMxs[gl[1][i]]]),
         rhoVec |-> SpamPool[gl[2]].rho,
         EVec |-> SpamPool[gl[2]].E]

GateSetIds == {c \in 1..Len(GateSetList) : Len(GateSetList[c][1]) <= MaxGates}

----------------------------------------------------------------------------
(* GaugeInvGateSet.from_gateset *)

\* numpy.allclose(v, ones)
AllCloseOnes(v) == \A k \in 1..Len(v) : isclose(v[k], COne)

\* The smallest member of a non-empty set of integers.
MinOf(S) == CHOOSE m \in S : \A k \in S : m <= k

\* Lines 101-105 on Bp, where Bp[j] is what _get_B_params (or the inv(Y[j])
\* before it) does for gate j >= 2: the loop stops at the first j that
\* raises, with B0_params[j] assigned for the j before it.
from_gateset_B(s2, Bp) ==
    LET n == Len(Bp)
        badB == {j \in 2..n : Bp[j].raised # ""}
        last == IF badB = {} THEN n ELSE MinOf(badB)
    IN  [s2 EXCEPT
           !.raised = IF badB = {} THEN "" ELSE Bp[MinOf(badB)].raised,
           !.warned = @ \/ \E j \in 2..last : Bp[j].warned,
           !.B0_params = Tup([j \in 1..n |->
                IF j >= 2 /\ (badB = {} \/ j < MinOf(badB))
                THEN Some(Bp[j].val) ELSE NoneV])]

\* Lines 96-105 on et, the outcome of _get_ET_params (line 96); s1 holds
\* the assignments made so far, scaledY0 among them.
from_gateset_E(P, s1, et) ==
    IF et.raised # "" THEN [s1 EXCEPT !.raised = et.raised]
    ELSE from_gateset_B(
             [s1 EXCEPT !.setE = TRUE, !.E_params = et.val, !.setB0 = TRUE],
             Tup([j \in 1..Len(P) |->
                 IF j = 1 THEN [raised |-> "", warned |-> FALSE, val |-> <<>>]
                 ELSE IF Singular(P[j].Y)
                 THEN [raised |-> "LinAlgError", warned |-> FALSE,
                       val |-> <<>>]
                 ELSE get_B_params(MatMul(MatInv(P[j].Y), s1.storedY0),
                                   P[j].D, P[1].D)]))

\* Lines 92-105, after self.storedY0 = scaledY0 (line 89)
from_gateset_Y0(gateset, P, s1, rho_tilde, delta0_diag) ==
    IF ~AllCloseOnes(MatVec(Diag(Tup([k \in 1..Len(delta0_diag) |->
                                     CDiv(COne, delta0_diag[k])])),
                            rho_tilde))
    THEN [s1 EXCEPT !.raised = "AssertionError"]
    ELSE from_gateset_E(P, s1,
             get_ET_params(VecMat(gateset.EVec, s1.storedY0), P[1].D))

\* Lines 84-105 on dl, the outcome of _get_delta0_diag (line 83)
from_gateset_delta0(gateset, P, base, rho_tilde, dl) ==
    IF dl.raised # ""
    THEN [base EXCEPT !.raised = dl.raised, !.warned = dl.warned]
    ELSE from_gateset_Y0(gateset, P,
             [base EXCEPT !.warned = dl.warned, !.setY0 = TRUE,
                          !.storedY0 = MatMul(P[1].Y, Diag(dl.val))],
             rho_tilde, dl.val)

\* Lines 83-105 on rho_tilde (line 82)
from_gateset_rho(gateset, P, base, rho_tilde) ==
    from_gateset_delta0(gateset, P, base, rho_tilde,
                        get_delta0_diag(rho_tilde, P[1].D))

\* Lines 59-105 on P, where P[i] is what _parameterize_real_gate_mx does
\* for gate i (line 73): the loop stops at the first i that raises, with
\* D_params[i] assigned for the i before it.
from_gateset_parameterized(gateset, P) ==
    LET n == Len(P)
        badP == {i \in 1..n : P[i].raised # ""}
        base == [raised |-> "", warned |-> FALSE,
                 gate_dim |-> gateset.dim, gateLabels |-> gateset.labels,
                 D_params |-> Tup([i \in 1..n |-> Some(P[i].D)]),
                 setY0 |-> FALSE, storedY0 |-> <<>>,
                 setE |-> FALSE, E_params |-> <<>>,
                 setB0 |-> FALSE, B0_params |-> <<>>]
    IN  IF badP # {}
        THEN [base EXCEPT !.raised = P[MinOf(badP)].raised,
                          !.D_params = Tup([i \in 1..n |->
                              IF i < MinOf(badP) THEN Some(P[i].D) ELSE NoneV])]
        ELSE IF Singular(P[1].Y) THEN [base EXCEPT !.raised = "LinAlgError"]
        ELSE from_gateset_rho(gateset, P, base,
                              MatVec(MatInv(P[1].Y), gateset.rhoVec))

\* from_gateset(gateset), lines 58-105, as the list of the assignments to
\* the container's fields that the call makes before it returns or raises.
\* gate_dim, gateLabels and D_params are always assigned (lines 59-67);
\* setY0, setE and setB0 say whether lines 89, 96 and 101 were reached.
from_gateset_run(gateset) ==
    from_gateset_parameterized(gateset,
        Tup([i \in 1..Len(gateset.labels) |->
            parameterize_real_gate_mx(gateset.gates[i])]))

----------------------------------------------------------------------------
(* The methods of GaugeInvGateSet as functions of the container's fields.  *)
(* A container s is the record of its fields: gate_dim (an int or None),   *)
(* gateLabels, E_params (an array or None), D_params and B0_params (lists  *)
(* of arrays or None) and storedY0 (a matrix or None).                     *)

\* from_gateset for every gate set of GateSetList
FromGatesetRuns ==
    Tup([c \in 1..Len(GateSetList) |-> from_gateset_run(GateSet(c))])

\* from_gateset that keeps an E_params the container already holds.
from_gateset_fields_keep(s, run) ==
    [gate_dim |-> Some(run.gate_dim),
     gateLabels |-> run.gateLabels,
     D_params |-> run.D_params,
     storedY0 |-> IF run.setY0 THEN Some(run.storedY0) ELSE s.storedY0,
     E_params |-> IF run.setE /\ s.E_params.isNone THEN Some(run.E_params)
                  ELSE s.E_params,
     B0_params |-> IF run.setB0 THEN run.B0_params ELSE s.B0_params]

\* Lines 59-104: the fields after from_gateset(gateset) on container s; a
\* field whose assignment was not reached keeps its value.
from_gateset_fields(s, run) ==
    [gate_dim |-> Some(run.gate_dim),
     gateLabels |-> run.gateLabels,
     D_params |-> run.D_params,
     storedY0 |-> IF run.setY0 THEN Some(run.storedY0) ELSE s.storedY0,
     E_params |-> IF run.setE THEN Some(run.E_params) ELSE s.E_params,
     B0_params |-> IF run.setB0 THEN run.B0_params ELSE s.B0_params]

\* Lines 169-170: the first exception of to_vector's two assertions.  len()
\* of None is a TypeError; the list of line 170 is built in full before
\* all() looks at it.
to_vector_check(s) ==
    IF s.E_params.isNone THEN "TypeError"
    ELSE IF s.gate_dim.isNone \/ Len(s.E_params.a) # s.gate_dim.a
    THEN "AssertionError"
    ELSE IF \E i \in 1..Len(s.D_params) : s.D_params[i].isNone
    THEN "TypeError"
    ELSE IF \E i \in 1..Len(s.D_params) :
               Len(s.D_params[i].a) # s.gate_dim.a
    THEN "AssertionError"
    ELSE IF \E j \in 2..Len(s.B0_params) : s.B0_params[j].isNone
    THEN "ValueError"
    ELSE ""

\* Line 171: [E_params] + D_params + B0_params[1:], the first m arrays of
\* D_params and B0_params[1:] concatenated after acc.
RECURSIVE ConcatArrays(_, _, _)
ConcatArrays(acc, arrays, m) ==
    IF m = 0 THEN acc
    ELSE ConcatArrays(acc, arrays, m - 1) \o arrays[m].a

\* to_vector with B0_params[1:] put before D_params.
to_vector_swapped(s) ==
    LET err == to_vector_check(s)
    IN  IF err # "" THEN [raised |-> err, val |-> <<>>]
        ELSE [raised |-> "",
              val |-> LET rest == IF s.B0_params = <<>> THEN <<>>
                                  ELSE Tail(s.B0_params)
                      IN  ConcatArrays(s.E_params.a, rest \o s.D_params,
                                       Len(s.D_params) + Len(rest))]

\* to_vector(), lines 167-172
to_vector_run(s) ==
    LET err == to_vector_check(s)
    IN  IF err # "" THEN [raised |-> err, val |-> <<>>]
        ELSE [raised |-> "",
              val |-> LET rest == IF s.B0_params = <<>> THEN <<>>
                                  ELSE Tail(s.B0_params)
                      IN  ConcatArrays(s.E_params.a, s.D_params \o rest,
                                       Len(s.D_params) + Len(rest))]

\* num_params that counts the arrays to_vector concatenates, not their
\* entries.
num_params_run_arrays(s) ==
    LET v == to_vector_run(s)
    IN  [raised |-> v.raised,
         val |-> IF v.raised = "" THEN Len(s.D_params) + Len(s.B0_params)
                 ELSE 0]

\* num_params(), lines 174-175
num_params_run(s) ==
    LET v == to_vector_run(s)
    IN  [raised |-> v.raised, val |-> Len(v.val)]

\* num_gauge_params(), lines 180-181
num_gauge_params_run(s) == [raised |-> "", val |-> 0]

\* num_nongauge_params that leaves the SPAM parameters out of the count.
num_nongauge_params_gates(s) ==
    LET np == num_params_run(s)
    IN  [raised |-> np.raised,
         val |-> IF np.raised = "" THEN np.val - Len(s.E_params.a) ELSE 0]

\* num_nongauge_params(), lines 177-178
num_nongauge_params_run(s) == num_params_run(s)

\* Lines 162-164: the value of k when the loop reaches B0_params[i] (i from
\* 2 in the model), k0 being its value after line 159.  k advances by the
\* length the entry had before the call.
RECURSIVE B0Start(_, _, _)
B0Start(B0, k0, i) ==
    IF i <= 2 THEN k0 ELSE B0Start(B0, k0, i - 1) + Len(B0[i - 1].a)

\* from_vector whose loop of lines 162-164 starts at index 0 and overwrites
\* the placeholder with an empty slice.
from_vector_run_all(s, v) ==
    IF s.gate_dim.isNone THEN [raised |-> "TypeError", fields |-> s]
    ELSE
    LET dim == s.gate_dim.a
        k0 == dim * (1 + Len(s.D_params))
        B0 == s.B0_params
    IN  [raised |-> IF \E i \in 2..Len(B0) : B0[i].isNone THEN "TypeError"
                    ELSE "",
         fields |-> [s EXCEPT
             !.E_params = Some(Slice(v, 0, dim)),
             !.D_params = Tup([i \in 1..Len(s.D_params) |->
                              Some(Slice(v, i * dim, (i + 1) * dim))]),
             !.B0_params = Tup([i \in 1..Len(B0) |->
                              IF i = 1 THEN Some(<<>>) ELSE B0[i]])]]

\* from_vector whose line 156 slices v[k:dim] before it adds: with gate_dim
\* None the slice is the whole of v, and k += dim then raises.
from_vector_run_sliced(s, v) ==
    IF s.gate_dim.isNone
    THEN [raised |-> "TypeError", fields |-> [s EXCEPT !.E_params = Some(v)]]
    ELSE
    LET dim == s.gate_dim.a
        k0 == dim * (1 + Len(s.D_params))
        B0 == s.B0_params
    IN  [raised |-> IF B0 = <<>> THEN "IndexError"
                    ELSE IF ~B0[1].isNone THEN "AssertionError"
                    ELSE IF \E i \in 2..Len(B0) : B0[i].isNone THEN "TypeError"
                    ELSE "",
         fields |-> [s EXCEPT
             !.E_params = Some(Slice(v, 0, dim)),
             !.D_params = Tup([i \in 1..Len(s.D_params) |->
                              Some(Slice(v, i * dim, (i + 1) * dim))])]]

\* from_vector(v), lines 154-165, on container s: the exception raised and
\* the fields when the call returns or raises.  There is no test of the
\* length of v: a slice past its end is short or empty.
from_vector_run(s, v) ==
    IF s.gate_dim.isNone THEN [raised |-> "TypeError", fields |-> s]
    ELSE
    LET dim == s.gate_dim.a
        k0 == dim * (1 + Len(s.D_params))
        s1 == [s EXCEPT !.E_params = Some(Slice(v, 0, dim)),
                        !.D_params = Tup([i \in 1..Len(s.D_params) |->
                                        Some(Slice(v, i * dim, (i + 1) * dim))])]
        B0 == s.B0_params
        none == {i \in 2..Len(B0) : B0[i].isNone}
        stop == IF none = {} THEN Len(B0) + 1 ELSE MinOf(none)
        B1 == Tup([i \in 1..Len(B0) |->
                    IF i >= 2 /\ i < stop
                    THEN Some(Slice(v, B0Start(B0, k0, i),
                                    B0Start(B0, k0, i) + Len(B0[i].a)))
                    ELSE B0[i]])
    IN  IF B0 = <<>> THEN [raised |-> "IndexError", fields |-> s1]
        ELSE IF ~B0[1].isNone THEN [raised |-> "AssertionError", fields |-> s1]
        ELSE [raised |-> IF none = {} THEN "" ELSE "TypeError",
              fields |-> [s1 EXCEPT !.B0_params = B1]]

\* Line 747: an entry of the numpy.empty array E_tilde that no assignment
\* reaches holds whatever the memory held; two values of it.
Garbage == {CZero, i_unit}

\* _get_ETilde_vector(E_params, D0_params), lines 746-767; g is the content
\* of the entries left unassigned (those past the length of D0_params).
get_ETilde_vector(E_params, D0_params, g) ==
    LET d0 == Len(D0_params)
    IN  IF \E q \in 1..NPairs(d0) : Len(E_params) < 2 * q
        THEN [raised |-> "ValueError", val |-> <<>>]
        ELSE IF d0 % 2 = 1 /\ Len(E_params) < d0
        THEN [raised |-> "IndexError", val |-> <<>>]
        ELSE [raised |-> "",
              val |-> Tup([k \in 1..Len(E_params) |->
                          IF k <= d0 THEN ETildeEntry(E_params, D0_params, k)
                          ELSE g])]

\* Lines 142-147: gate i >= 1 of to_gateset (i from 2 in the model).  The
\* arguments D_params[i], D_params[0], B0_params[i] are read before the
\* call; len(None) inside it is a TypeError.
to_gateset_gate(s, i) ==
    IF i > Len(s.D_params) \/ i > Len(s.B0_params)
    THEN [raised |-> "IndexError", val |-> <<>>]
    ELSE IF s.D_params[i].isNone
    THEN [raised |-> "TypeError", val |-> <<>>]
    ELSE deparameterize_real_gate_mx(s.D_params[i].a, s.D_params[1].a,
                                     s.B0_params[i], s.storedY0.a)

\* to_gateset() raising r
to_gateset_fail(r) ==
    [raised |-> r, labels |-> <<>>, gates |-> <<>>, rhoVec |-> <<>>,
     EVec |-> <<>>]

\* Lines 126, 132 and 140-148 on G, where G[i] is what building gate i
\* does: the first gate that raises ends the call.
to_gateset_result(s, Evec, G) ==
    LET n == Len(G)
        bad == {i \in 1..n : G[i].raised # ""}
    IN  IF bad # {} THEN to_gateset_fail(G[MinOf(bad)].raised)
        ELSE [raised |-> "", labels |-> s.gateLabels,
              gates |-> Tup([i \in 1..n |-> G[i].val]),
              rhoVec |-> MatVec(s.storedY0.a,
                                Tup([k \in 1..s.gate_dim.a |-> COne])),
              EVec |-> Tup([k \in 1..Len(Evec) |-> CReal(Re(Evec[k]))])]

\* Lines 131-148 on Evec (line 130)
to_gateset_gates(s, invY0, Evec) ==
    IF \E k \in 1..Len(Evec) : ~isreal(Evec[k])
    THEN to_gateset_fail("AssertionError")
    ELSE IF Len(s.D_params[1].a) # Len(s.storedY0.a)
    THEN to_gateset_fail("ValueError")
    ELSE IF s.gateLabels = <<>> THEN to_gateset_fail("IndexError")
    ELSE to_gateset_result(s, Evec,
             Tup([i \in 1..Len(s.gateLabels) |->
                 IF i = 1
                 THEN [raised |-> "",
                       val |-> MatMul(s.storedY0.a,
                                      MatMul(constructDj(s.D_params[1].a),
                                             invY0))]
                 ELSE to_gateset_gate(s, i)]))

\* Lines 130-148 on invY0 (line 119) and et, the outcome of
\* _get_ETilde_vector (line 129)
to_gateset_E(s, invY0, et) ==
    IF et.raised # "" THEN to_gateset_fail(et.raised)
    ELSE IF Len(et.val) # Len(s.storedY0.a) THEN to_gateset_fail("ValueError")
    ELSE to_gateset_gates(s, invY0, MatVec(Transpose(invY0), et.val))

\* to_gateset(), lines 108-151, on container s: the exception raised or the
\* gate set returned (rhoVec, EVec, and the gates in label order).
to_gateset_run(s, g) ==
    IF s.storedY0.isNone \/ Singular(s.storedY0.a)
    THEN to_gateset_fail("LinAlgError")
    ELSE IF s.gate_dim.isNone THEN to_gateset_fail("TypeError")
    ELSE IF s.gate_dim.a # Len(s.storedY0.a) THEN to_gateset_fail("ValueError")
    ELSE IF s.D_params = <<>> THEN to_gateset_fail("IndexError")
    ELSE IF s.E_params.isNone \/ s.D_params[1].isNone
    THEN to_gateset_fail("TypeError")
    ELSE to_gateset_E(s, MatInv(s.storedY0.a),
             get_ETilde_vector(s.E_params.a, s.D_params[1].a, g))

----------------------------------------------------------------------------
(* One GaugeInvGateSet object and the calls made on it.                    *)

\* How far the length of a vector given to from_vector may be from the
\* length the container's lists ask for.
LenSlack == 1

VARIABLES
    gate_dim,     \* self.gate_dim: Some(d) or NoneInt
    gateLabels,   \* self.gateLabels
    E_params,     \* self.E_params: Some(array) or NoneV
    D_params,     \* self.D_params: a list of Some(array) or NoneV
    B0_params,    \* self.B0_params: a list of Some(array) or NoneV
    storedY0,     \* self.storedY0: Some(matrix) or NoneV
    ret,          \* the last call: its name, argument, exception, result
                  \* (for from_gateset and from_vector: hist before it)
    src,          \* the gate set of the last from_gateset that returned
                  \* normally, 0 when a later call broke its encoding
    hist          \* "fresh", "encoded", "edited" or "broken"

container == <<gate_dim, gateLabels, E_params, D_params, B0_params, storedY0>>
vars == <<gate_dim, gateLabels, E_params, D_params, B0_params, storedY0,
          ret, src, hist>>

self ==
    [gate_dim |-> gate_dim, gateLabels |-> gateLabels, E_params |-> E_params,
     D_params |-> D_params, B0_params |-> B0_params, storedY0 |-> storedY0]

\* The container's fields become those of the record s.
Assign(s) ==
    /\ gate_dim' = s.gate_dim
    /\ gateLabels' = s.gateLabels
    /\ E_params' = s.E_params
    /\ D_params' = s.D_params
    /\ B0_params' = s.B0_params
    /\ storedY0' = s.storedY0

Call(op, arg, raised, warned, val) ==
    [op |-> op, arg |-> arg, raised |-> raised, warned |-> warned, val |-> val]

\* The fields of a container after __init__, lines 40-45
Fresh ==
    [gate_dim |-> NoneInt, gateLabels |-> <<>>, E_params |-> NoneV,
     D_params |-> <<>>, B0_params |-> <<>>, storedY0 |-> NoneV]

\* __init__, lines 35-45
Init ==
    /\ gate_dim = Fresh.gate_dim
    /\ E_params = Fresh.E_params
    /\ D_params = Fresh.D_params
    /\ B0_params = Fresh.B0_params
    /\ gateLabels = Fresh.gateLabels
    /\ storedY0 = Fresh.storedY0
    /\ ret = Call("__init__", <<>>, "", FALSE, <<>>)
    /\ src = 0
    /\ hist = "fresh"

\* from_gateset(gateset) for the gate set number c of GateSetList
from_gateset(c) ==
    \E run \in {FromGatesetRuns[c]} :
        /\ Assign(from_gateset_fields(self, run))
        /\ ret' = Call("from_gateset", c, run.raised, run.warned, hist)
        /\ src' = IF run.raised = "" THEN c ELSE 0
        /\ hist' = IF run.raised = "" THEN "encoded" ELSE "broken"

\* The length of v that lines 156-164 read on container s.
Needed(s) ==
    IF s.gate_dim.isNone THEN 0
    ELSE B0Start(s.B0_params, s.gate_dim.a * (1 + Len(s.D_params)),
                 Len(s.B0_params) + 1)

\* The vector <<1, 2, ..., L>>
Ramp(L) == Tup([k \in 1..L |-> RInt(k)])

\* The vectors given to from_vector on container s: what to_vector returns,
\* twice that right after from_gateset, and vectors of about the length the container asks for.
Vectors(s) ==
    LET tv == to_vector_run(s)
        own == IF tv.raised # "" THEN {}
               ELSE IF hist # "encoded" THEN {tv.val}
               ELSE {tv.val,
                     Tup([k \in 1..Len(tv.val) |-> RMul(RInt(2), tv.val[k])])}
    IN  own \cup {Ramp(L) : L \in {L \in (Needed(s) - LenSlack)
                                          ..(Needed(s) + LenSlack) : L >= 0}}

\* from_vector(v)
from_vector(v) ==
    LET r == from_vector_run(self, v)
        np == num_params_run(self)
        fits == r.raised = "" /\ np.raised = "" /\ Len(v) = np.val
    IN  /\ Assign(r.fields)
        /\ ret' = Call("from_vector", v, r.raised, FALSE, hist)
        /\ hist' = IF hist = "fresh" THEN "fresh"
                   ELSE IF hist \in {"encoded", "edited"} /\ fits THEN "edited"
                   ELSE "broken"
        /\ src' = IF hist \in {"encoded", "edited"} /\ fits THEN src ELSE 0

\* to_vector()
to_vector ==
    LET r == to_vector_run(self)
    IN  /\ ret' = Call("to_vector", <<>>, r.raised, FALSE, r.val)
        /\ UNCHANGED <<container, src, hist>>

\* to_gateset that empties B0_params as it decodes.
to_gateset_consuming ==
    \E g \in Garbage : \E r \in {to_gateset_run(self, g)} :
        /\ ret' = Call("to_gateset", <<>>, r.raised, FALSE, r)
        /\ B0_params' = <<>>
        /\ UNCHANGED <<gate_dim, gateLabels, E_params, D_params, storedY0,
                       src, hist>>

\* to_gateset()
to_gateset ==
    \E g \in Garbage : \E r \in {to_gateset_run(self, g)} :
        /\ ret' = Call("to_gateset", <<>>, r.raised, FALSE, r)
        /\ UNCHANGED <<container, src, hist>>

\* num_params()
num_params ==
    LET r == num_params_run(self)
    IN  /\ ret' = Call("num_params", <<>>, r.raised, FALSE, r.val)
        /\ UNCHANGED <<container, src, hist>>

\* num_nongauge_params()
num_nongauge_params ==
    LET r == num_nongauge_params_run(self)
    IN  /\ ret' = Call("num_nongauge_params", <<>>, r.raised, FALSE, r.val)
        /\ UNCHANGED <<container, src, hist>>

\* num_gauge_params()
num_gauge_params ==
    LET r == num_gauge_params_run(self)
    IN  /\ ret' = Call("num_gauge_params", <<>>, r.raised, FALSE, r.val)
        /\ UNCHANGED <<container, src, hist>>

Next ==
    \/ \E c \in GateSetIds : from_gateset(c)
    \/ \E v \in Vectors(self) : from_vector(v)
    \/ to_vector
    \/ to_gateset
    \/ num_params
    \/ num_nongauge_params
    \/ num_gauge_params

Spec == Init /\ [][Next]_vars

----------------------------------------------------------------------------
(* The module's functions called on their own.                             *)
(*                                                                         *)
(* _parameterize_real_gate_mx, _get_delta0_diag, _get_B_params and         *)
(* _deparameterize_real_gate_mx are functions of the module: they read no  *)
(* field of a container.  FnSpec calls them on inputs drawn from the lists *)
(* below; ret holds the last call, its arguments and what it gave.         *)

\* The eigenvalues and eigenvectors of a block-triangular matrix: those of
\* e1, then those of e2 with the block cpl on top of its eigenvectors.
BlockEig(e1, e2, cpl) ==
    [evals |-> e1.evals \o e2.evals,
     evecs |-> Tup([r \in 1..(Len(e1.evals) + Len(e2.evals)) |->
                Tup([c \in 1..(Len(e1.evals) + Len(e2.evals)) |->
                    IF r <= Len(e1.evals)
                    THEN IF c <= Len(e1.evals) THEN e1.evecs[r][c]
                         ELSE cpl[r][c - Len(e1.evals)]
                    ELSE IF c <= Len(e1.evals) THEN CZero
                         ELSE e2.evecs[r - Len(e1.evals)][c - Len(e1.evals)]])])]

\* Coupling blocks: none, a real one, and one whose columns are conjugates.
NoCpl == << <<CZero, CZero>>, <<CZero, CZero>> >>
RealCpl == << <<Z(1), Z(0)>>, <<Z(0), Z(1)>> >>
ConjCpl == << <<Z(1), Z(1)>>, <<ZI(0, 1), ZI(0, -1)>> >>

DirectSum(e1, e2) == BlockEig(e1, e2, NoCpl)

\* diag(3, 1/2): a real pair, the larger eigenvalue first
Eig3Half == BlockEig(EigPool[7], EigPool[8], << <<CZero>> >>)

\* 4 x 4 and 5 x 5 matrices given to numpy.linalg.eig (line 192) and its
\* results, built from those of EigPool.
EigPool4 ==
    << DirectSum(EigPool[1], EigPool[2]),       \* i, -i, 2+i, 2-i
       DirectSum(EigPool[1], EigPool[4]),       \* i, -i, 2, 1
       DirectSum(EigPool[4], EigPool[1]),       \* 2, 1, i, -i
       DirectSum(EigPool[6], Eig3Half),         \* 4, 2, 3, 1/2
       DirectSum(EigPool[6], EigPool[12]),      \* 4, 2, 1, 3
       DirectSum(EigPool[5], EigPool[1]),       \* 2, 2, i, -i
       DirectSum(EigPool[4], EigPool[6]),       \* 2, 1, 4, 2
       DirectSum(EigPool[3], EigPool[4]),       \* 1, 2, 2, 1
       DirectSum(EigPool[1], EigPool[1]),       \* i, -i, i, -i
       BlockEig(EigPool[1], EigPool[2], ConjCpl),
       BlockEig(EigPool[1], EigPool[4], RealCpl),
       BlockEig(EigPool[6], Eig3Half, RealCpl),
       BlockEig(EigPool[6], EigPool[2], ConjCpl) >>

EigPool5 ==
    << BlockEig(EigPool4[2], EigPool[7],        \* i, -i, 2, 1, 3
                << <<CZero>>, <<CZero>>, <<CZero>>, <<CZero>> >>),
       BlockEig(EigPool4[1], EigPool[7],        \* i, -i, 2+i, 2-i, 3
                << <<Z(1)>>, <<CZero>>, <<CZero>>, <<Z(1)>> >>) >>

\* The results of numpy.linalg.eig that _parameterize_real_gate_mx is
\* called on.
EigInputs == EigPool \o EigPool4 \o EigPool5

\* _parameterize_real_gate_mx for every entry of EigInputs
ParameterizeRunsOf(inputs) ==
    Tup([g \in 1..Len(inputs) |-> parameterize_from_eig(inputs[g])])

ParameterizeRuns == ParameterizeRunsOf(EigInputs)

\* numpy.linalg.inv of the eigenvector matrices Y of the runs P (lines 82
\* and 103), <<>> where there is none.
InversesOf(P) ==
    Tup([g \in 1..Len(P) |->
        IF P[g].raised # "" THEN <<>>
        ELSE IF Singular(P[g].Y) THEN <<>>
        ELSE MatInv(P[g].Y)])

YInverses == InversesOf(ParameterizeRuns)

\* The pairs <<j, z>> of entries of EigInputs of one dimension that both
\* have an invertible Y: operator j encoded against the reference z.
PairsOf(YI) ==
    SelectSeq(Tup([n \in 1..(Len(YI) * Len(YI)) |->
                  <<((n - 1) \div Len(YI)) + 1, ((n - 1) % Len(YI)) + 1>>]),
              LAMBDA p : /\ YI[p[1]] # <<>>
                         /\ YI[p[2]] # <<>>
                         /\ Len(YI[p[1]]) = Len(YI[p[2]]))

BPairs == PairsOf(YInverses)

\* Line 103: the arguments (invYjY0, Dj_params, D0_params) of _get_B_params
\* for the pairs of BPairs, Y0 being the Y of the reference as
\* _parameterize_real_gate_mx returned it.
BInputsOf(P, YI, pairs) ==
    Tup([n \in 1..Len(pairs) |->
        <<MatMul(YI[pairs[n][1]], P[pairs[n][2]].Y),
          P[pairs[n][1]].D, P[pairs[n][2]].D>>])

BInputs == BInputsOf(ParameterizeRuns, YInverses, BPairs)

\* _get_B_params for every entry of the list inputs
GetBRunsOf(inputs) ==
    Tup([n \in 1..Len(inputs) |->
        get_B_params(inputs[n][1], inputs[n][2], inputs[n][3])])

GetBRuns == GetBRunsOf(BInputs)

\* Y0 matrices with an entry that has a small and a large imaginary part
\* where the pair structure asks for a real one.
TinyImagY0 == << <<Z(1), Cx(RZero, TINY12)>>, <<Z(0), Z(1)>> >>
ImagY0 == << <<Z(1), ZI(0, 1)>>, <<Z(0), Z(1)>> >>

\* Lines 142-146: the arguments (Dj_params, D0_params, B0j_params, Y0) of
\* _deparameterize_real_gate_mx: what _get_B_params returned for an entry
\* of BInputs with the Y0 it was computed for (None where it raised, and
\* where it scaled by 1e10: the model's numbers cannot hold the sum of 1e10
\* and 1), and a real pair with no off-diagonal parameters against the two
\* matrices above, and the parameters of the tiles of entry 13 of EigInputs
\* against the coupled reference of entry 23 (conjugate rows; the columns
\* of the second pair are a real pair).
DeparamInputsOf(P, pairs, inputs, B) ==
    Tup([m \in 1..Len(inputs) |->
        <<inputs[m][2], inputs[m][3],
          IF B[m].raised = "" /\ ~B[m].warned THEN Some(B[m].val) ELSE NoneV,
          P[pairs[m][2]].Y>>])
    \o << <<P[4].D, P[4].D, Some(<<RZero, RZero>>), TinyImagY0>>,
          <<P[4].D, P[4].D, Some(<<RZero, RZero>>), ImagY0>>,
          <<P[13].D, P[23].D,
            Some(<<RZero, RZero, RFrac(1, 2), RZero, RZero, RFrac(1, 2),
                   RZero, RZero, RZero, RZero, RInt(-1), ROne>>),
            P[23].Y>> >>

DeparamInputs == DeparamInputsOf(ParameterizeRuns, BPairs, BInputs, GetBRuns)

\* _deparameterize_real_gate_mx for every entry of the list inputs
DeparamRunsOf(inputs) ==
    Tup([m \in 1..Len(inputs) |->
        deparameterize_real_gate_mx(inputs[m][1], inputs[m][2],
                                    inputs[m][3], inputs[m][4])])

DeparamRuns == DeparamRunsOf(DeparamInputs)

\* The values of the components of the vectors given to _get_delta0_diag.
RhoValues ==
    <<Z(1), Z(2), ZI(0, 1), ZI(0, -1), ZI(1, 1), ZI(1, -1), CReal(TINY12),
      CZero>>

\* The D0_params given to _get_delta0_diag: a conjugate pair, a real pair,
\* a leftover, and lists of 3 and 4 values.
D0PoolOf(P) == <<P[1].D, P[4].D, P[7].D, P[9].D, P[10].D, P[14].D, P[16].D>>

D0Pool == D0PoolOf(ParameterizeRuns)

\* Every vector of two values of the list vals
VectorsOf2(vals) ==
    Tup([n \in 1..(Len(vals) * Len(vals)) |->
        <<vals[((n - 1) \div Len(vals)) + 1], vals[((n - 1) % Len(vals)) + 1]>>])

\* Line 83: the arguments (rho_tilde, D0_params) of _get_delta0_diag: the
\* vectors of two values of RhoValues against the conjugate pair (a value
\* below 1e-10 only with itself: the model's numbers cannot hold the
\* difference of 1 and 1e-12 that line 286 takes) and against the real
\* pair, every value against the leftover, and vectors of 3 and 4 values.
Delta0InputsOf(D0s) ==
    Tup([n \in 1..((Len(RhoValues) - 1) * (Len(RhoValues) - 1)) |->
        <<VectorsOf2(SelectSeq(RhoValues,
                               LAMBDA x : x # CReal(TINY12)))[n], D0s[1]>>])
    \o << <<<<CReal(TINY12), CReal(TINY12)>>, D0s[1]>> >>
    \o Tup([n \in 1..(Len(RhoValues) * Len(RhoValues)) |->
           <<VectorsOf2(RhoValues)[n], D0s[2]>>])
    \o Tup([n \in 1..Len(RhoValues) |-> <<<<RhoValues[n]>>, D0s[3]>>])
    \o << <<<<ZI(1, 1), ZI(1, -1), Z(2)>>, D0s[4]>>,
          <<<<ZI(1, 1), ZI(1, -1), CReal(TINY12)>>, D0s[4]>>,
          <<<<Z(2), Z(2), Z(1)>>, D0s[5]>>,
          <<<<Z(2), CReal(TINY12), Z(1)>>, D0s[5]>>,
          <<<<ZI(0, 1), ZI(0, -1), Z(1), Z(1)>>, D0s[6]>>,
          <<<<CReal(TINY12), CReal(TINY12), Z(1), Z(2)>>, D0s[6]>>,
          <<<<Z(1), Z(1), Z(2), Z(2)>>, D0s[7]>>,
          <<<<Z(1), Z(2), Z(2), CReal(TINY12)>>, D0s[7]>> >>

Delta0Inputs == Delta0InputsOf(D0Pool)

\* _get_delta0_diag for every entry of the list inputs
Delta0RunsOf(inputs) ==
    Tup([n \in 1..Len(inputs) |->
        get_delta0_diag(inputs[n][1], inputs[n][2])])

Delta0Runs == Delta0RunsOf(Delta0Inputs)

\* The calls made of one function: the arguments of each call with its
\* outcome.
CallsOf(inputs, runs) ==
    Tup([n \in 1..Len(inputs) |-> [arg |-> inputs[n], run |-> runs[n]]])

ParameterizeCalls == CallsOf(EigInputs, ParameterizeRuns)
Delta0Calls == CallsOf(Delta0Inputs, Delta0Runs)
GetBCalls == CallsOf(BInputs, GetBRuns)
DeparamCalls == CallsOf(DeparamInputs, DeparamRuns)

\* A _parameterize_real_gate_mx that keeps the result of the call before it:
\* called right after another call of itself it returns that call's result.
call_parameterize_cached(g) ==
    \E r \in {ParameterizeCalls[g]} :
        /\ ret' = Call("_parameterize_real_gate_mx", r.arg, r.run.raised, FALSE,
                       IF ret.op = "_parameterize_real_gate_mx" THEN ret.val
                       ELSE r.run)
        /\ UNCHANGED <<container, src, hist>>

\* _parameterize_real_gate_mx(real_gate_mx) for entry g of EigInputs
call_parameterize_real_gate_mx(g) ==
    \E r \in {ParameterizeCalls[g]} :
        /\ ret' = Call("_parameterize_real_gate_mx", r.arg, r.run.raised, FALSE,
                       r.run)
        /\ UNCHANGED <<container, src, hist>>

\* _get_delta0_diag(rho_tilde, D0_params) for entry n of Delta0Inputs
call_get_delta0_diag(n) ==
    \E r \in {Delta0Calls[n]} :
        /\ ret' = Call("_get_delta0_diag", r.arg, r.run.raised, r.run.warned,
                       r.run)
        /\ UNCHANGED <<container, src, hist>>

\* _get_B_params(invYjY0, Dj_params, D0_params) for entry n of BInputs
call_get_B_params(n) ==
    \E r \in {GetBCalls[n]} :
        /\ ret' = Call("_get_B_params", r.arg, r.run.raised, r.run.warned,
                       r.run.val)
        /\ UNCHANGED <<container, src, hist>>

\* _deparameterize_real_gate_mx(Dj_params, D0_params, B0j_params, Y0) for
\* entry m of DeparamInputs
call_deparameterize_real_gate_mx(m) ==
    \E r \in {DeparamCalls[m]} :
        /\ ret' = Call("_deparameterize_real_gate_mx", r.arg, r.run.raised,
                       FALSE, r.run.val)
        /\ UNCHANGED <<container, src, hist>>

\* Line 95: the arguments (ET_tilde, D0_params) of _get_ET_params: those
\* given to _get_delta0_diag that hold no value below 1e-10 (the model's
\* numbers cannot hold the sum of 1 and 1e-12 that line 337 takes), and a
\* vector that is a conjugate pair only within numpy.isclose's tolerance.
ETInputsOf(inputs, D0s) ==
    SelectSeq(inputs, LAMBDA x :
        \A k \in 1..Len(x[1]) : x[1][k] # CReal(TINY12))
    \o << <<<<Cx(ROne, <<1, 1, -6>>), COne>>, D0s[1]>> >>

ETInputs == ETInputsOf(Delta0Inputs, D0Pool)

\* _get_ET_params for every entry of the list inputs
ETRunsOf(inputs) ==
    Tup([n \in 1..Len(inputs) |-> get_ET_params(inputs[n][1], inputs[n][2])])

ETRuns == ETRunsOf(ETInputs)

ETCalls == CallsOf(ETInputs, ETRuns)

\* _get_ET_params(ET_tilde, D0_params) for entry n of ETInputs
call_get_ET_params(n) ==
    \E r \in {ETCalls[n]} :
        /\ ret' = Call("_get_ET_params", r.arg, r.run.raised, FALSE, r.run.val)
        /\ UNCHANGED <<container, src, hist>>

----------------------------------------------------------------------------
(* report/reportables.py: evaluate and the diamond-norm functions *)

\* ReportableQty(value, errbar, nonMarkovianEBs): the quantity with its
\* error bar (errbar None and nonMarkovianEBs False when not given).
ReportableQty(value, errbar, nonMarkovianEBs) ==
    [value |-> value, errbar |-> errbar, nonMarkovianEBs |-> nonMarkovianEBs]

\* Lines 236-270: what the name Gatestring_half_diamond_norm is bound to
\* once the module is imported: the class when import cvxpy succeeds, None
\* when it raises ImportError.
Gatestring_half_diamond_norm(cvxpy) ==
    IF cvxpy THEN Some("Gatestring_half_diamond_norm") ELSE NoneV

\* Lines 467-499: the same for Half_diamond_norm.
Half_diamond_norm(cvxpy) ==
    IF cvxpy THEN Some("Half_diamond_norm") ELSE NoneV

\* Lines 461-463: Jt_diff needs no solver.
Jt_diff(cvxpy) == Some("Jt_diff")

\* The binding of a name of the module
Binding(name, cvxpy) ==
    IF name = "Half_diamond_norm" THEN Half_diamond_norm(cvxpy)
    ELSE IF name = "Gatestring_half_diamond_norm"
    THEN Gatestring_half_diamond_norm(cvxpy)
    ELSE Jt_diff(cvxpy)

\* The gatesetFn a report passes to evaluate for a name of the module: an
\* instance of the class, whose evaluate() gives f0, or None when the name
\* is bound to None.
GatesetFnFor(binding, f0) ==
    IF binding.isNone THEN NoneV ELSE Some([cls |-> binding.a, f0 |-> f0])

\* evaluate without the test of line 53.
evaluate_unguarded(gatesetFn, cri, verbosity) ==
    IF ~cri.isNone
    THEN IF cri.a.error # ""
         THEN [raised |-> cri.a.error, val |-> NoneV,
               consulted |-> <<"get_errobar_type">>]
         ELSE [raised |-> "",
               val |-> Some(ReportableQty(
                           IF gatesetFn.isNone THEN RZero ELSE gatesetFn.a.f0,
                           Some(cri.a.df),
                           cri.a.type = "non-markovian")),
               consulted |-> <<"get_errobar_type",
                               "get_fn_confidence_interval">>]
    ELSE IF gatesetFn.isNone
    THEN [raised |-> "AttributeError", val |-> NoneV, consulted |-> <<>>]
    ELSE [raised |-> "",
          val |-> Some(ReportableQty(gatesetFn.a.f0, NoneV, FALSE)),
          consulted |-> <<>>]

\* evaluate(gatesetFn, cri, verbosity), lines 52-63, for a gatesetFn whose
\* value is a number.  cri is None or a confidence region: its error-bar
\* type, the error bar df it computes, and the exception its methods raise
\* ("" when they return).  consulted lists the methods of cri called.
evaluate(gatesetFn, cri, verbosity) ==
    IF gatesetFn.isNone
    THEN [raised |-> "", val |-> Some(ReportableQty(RNaN, NoneV, FALSE)),
          consulted |-> <<>>]
    ELSE IF ~cri.isNone
    THEN IF cri.a.error # ""
         THEN [raised |-> cri.a.error, val |-> NoneV,
               consulted |-> <<"get_errobar_type">>]
         ELSE [raised |-> "",
               val |-> Some(ReportableQty(gatesetFn.a.f0, Some(cri.a.df),
                                          cri.a.type = "non-markovian")),
               consulted |-> <<"get_errobar_type",
                               "get_fn_confidence_interval">>]
    ELSE [raised |-> "",
          val |-> Some(ReportableQty(gatesetFn.a.f0, NoneV, FALSE)),
          consulted |-> <<>>]

\* The confidence regions given to evaluate: None, a region of each
\* error-bar type, and a region whose methods raise.
CriPool ==
    <<NoneV,
      Some([type |-> "standard", df |-> RFrac(1, 10), error |-> ""]),
      Some([type |-> "non-markovian", df |-> RFrac(1, 10), error |-> ""]),
      Some([type |-> "standard", df |-> RZero, error |-> "ValueError"])>>

\* The names evaluated, and the values their functions give.
FnNames == <<"Half_diamond_norm", "Gatestring_half_diamond_norm", "Jt_diff">>
FnValues == <<RZero, RFrac(1, 4)>>
Verbosities == <<0, 1>>

\* The calls of evaluate: whether cvxpy can be imported, the name, the
\* value of the function, cri and verbosity, in every combination.
EvaluateInputsOf(names, values, cris, verbs) ==
    Tup([n \in 1..(2 * Len(names) * Len(values) * Len(cris) * Len(verbs)) |->
        [cvxpy |-> (n - 1) % 2 = 1,
         name |-> names[(((n - 1) \div 2) % Len(names)) + 1],
         f0 |-> values[(((n - 1) \div (2 * Len(names))) % Len(values)) + 1],
         cri |-> cris[(((n - 1) \div (2 * Len(names) * Len(values)))
                       % Len(cris)) + 1],
         verbosity |-> verbs[((n - 1) \div (2 * Len(names) * Len(values)
                                            * Len(cris))) + 1]]])

EvaluateInputs == EvaluateInputsOf(FnNames, FnValues, CriPool, Verbosities)

\* evaluate for every entry of the list inputs; fn is the gatesetFn passed
EvaluateRunsOf(inputs) ==
    Tup([n \in 1..Len(inputs) |->
        [fn |-> GatesetFnFor(Binding(inputs[n].name, inputs[n].cvxpy),
                             inputs[n].f0),
         out |-> evaluate(GatesetFnFor(Binding(inputs[n].name,
                                               inputs[n].cvxpy),
                                       inputs[n].f0),
                          inputs[n].cri, inputs[n].verbosity)]])

EvaluateRuns == EvaluateRunsOf(EvaluateInputs)

EvaluateCalls == CallsOf(EvaluateInputs, EvaluateRuns)

\* evaluate(gatesetFn, cri, verbosity) for entry n of EvaluateInputs
call_evaluate(n) ==
    \E r \in {EvaluateCalls[n]} :
        /\ ret' = Call("evaluate", r.arg, r.run.out.raised, FALSE, r.run)
        /\ UNCHANGED <<container, src, hist>>

FnNext ==
    \/ \E g \in 1..Len(ParameterizeCalls) : call_parameterize_real_gate_mx(g)
    \/ \E n \in 1..Len(Delta0Calls) : call_get_delta0_diag(n)
    \/ \E n \in 1..Len(GetBCalls) : call_get_B_params(n)
    \/ \E m \in 1..Len(DeparamCalls) : call_deparameterize_real_gate_mx(m)
    \/ \E n \in 1..Len(ETCalls) : call_get_ET_params(n)
    \/ \E n \in 1..Len(EvaluateCalls) : call_evaluate(n)

FnSpec == Init /\ [][FnNext]_vars

----------------------------------------------------------------------------
(* Properties *)

\* Element-wise numpy.isclose of a computed matrix or vector against the
\* one it should equal.
CloseMx(A, B) ==
    /\ Len(A) = Len(B)
    /\ \A r \in 1..Len(A) :
          /\ Len(A[r]) = Len(B[r])
          /\ \A c \in 1..Len(A[r]) : isclose(A[r][c], B[r][c])

CloseVec(a, b) ==
    /\ Len(a) = Len(b)
    /\ \A k \in 1..Len(a) : isclose(a[k], b[k])

\* The container holds an encoding whose lists have the lengths from_gateset
\* gave them.
Encoded == hist \in {"encoded", "edited"}

\* C1: container round trip.  to_gateset() called on the container as a
\* successful from_gateset(X) left it returns a gate set whose gates,
\* measurement vector and preparation vector are those of X within
\* numpy.isclose's tolerance.
C1_ContainerRoundTrip ==
    (hist = "encoded" /\ ret.op = "to_gateset") =>
        /\ ret.raised = ""
        /\ Len(ret.val.gates) = Len(GateSet(src).gates)
        /\ \A i \in 1..Len(ret.val.gates) :
              CloseMx(ret.val.gates[i], GateSet(src).gates[i])
        /\ CloseVec(ret.val.EVec, GateSet(src).EVec)
        /\ CloseVec(ret.val.rhoVec, GateSet(src).rhoVec)

\* C2: single-operator round trip.  For gate j >= 1 of an encoded gate set,
\* with Dj and B0j_params as _parameterize_real_gate_mx and _get_B_params
\* produced them against the reference (D0, Y0) of gate 0,
\* _deparameterize_real_gate_mx(Dj, D0, B0j_params, Y0) returns the gate's
\* matrix within numpy.isclose's tolerance.
C2_SingleOperatorRoundTrip ==
    hist = "encoded" =>
        \A j \in 2..Len(D_params) :
            LET r == deparameterize_real_gate_mx(D_params[j].a, D_params[1].a,
                                                 B0_params[j], storedY0.a)
            IN  r.raised = "" /\ CloseMx(r.val, GateSet(src).gates[j])

\* C3: parameter count consistency.  In every reachable state num_params()
\* and num_nongauge_params() end as to_vector() does (the same exception,
\* or the length of the vector it returns) and num_gauge_params() is 0.
C3_ParamCountConsistency ==
    LET tv == to_vector_run(self)
        np == num_params_run(self)
        nn == num_nongauge_params_run(self)
        ng == num_gauge_params_run(self)
    IN  /\ np.raised = tv.raised
        /\ nn.raised = tv.raised
        /\ tv.raised = "" => (np.val = Len(tv.val) /\ nn.val = np.val)
        /\ ng.raised = "" /\ ng.val = 0

C3_Witness ==
    /\ ret.op = "num_nongauge_params" /\ ret.raised = "" /\ ret.val = 8
    /\ hist = "edited"
    /\ Len(to_vector_run(self).val) = 8

\* The vector v is E_params, then D_params[0..n-1], then B0_params[1..n-1]
\* of container s, each array at its place.
Layout(s, v) ==
    LET d == s.gate_dim.a
        n == Len(s.D_params)
        k0 == d * (1 + n)
    IN  /\ SubSeq(v, 1, d) = s.E_params.a
        /\ \A i \in 1..n : SubSeq(v, i * d + 1, (i + 1) * d) = s.D_params[i].a
        /\ \A j \in 2..Len(s.B0_params) :
              SubSeq(v, B0Start(s.B0_params, k0, j) + 1,
                     B0Start(s.B0_params, k0, j + 1)) = s.B0_params[j].a
        /\ Len(v) = B0Start(s.B0_params, k0, Len(s.B0_params) + 1)

\* C4: on an encoded container to_vector() returns E_params, D_params[*],
\* B0_params[1:] in that order; from_vector(to_vector()) leaves every
\* array as it was; and to_vector() after from_vector(v) returns v for v
\* of length num_params().
C4Step ==
    /\ Encoded' =>
          /\ to_vector_run(self').raised = ""
          /\ Layout(self', to_vector_run(self').val)
    /\ (/\ ret'.op = "from_vector"
        /\ Encoded
        /\ Len(ret'.arg) = num_params_run(self).val) =>
          /\ ret'.raised = ""
          /\ to_vector_run(self').val = ret'.arg
          /\ ret'.arg = to_vector_run(self).val => container' = container

C4_VectorRoundTrip == [][C4Step]_vars

C4_Witness ==
    /\ ret.op = "from_vector" /\ ret.raised = "" /\ hist = "edited"
    /\ Len(ret.arg) = 8
    /\ to_vector_run(self).val = ret.arg
    /\ ret.arg = Ramp(8)

\* C5: from_vector(v) on an encoded container with len(v) # num_params()
\* raises and leaves the container's fields as they were.
C5_LengthMismatchAborts ==
    [][(/\ ret'.op = "from_vector"
        /\ Encoded
        /\ Len(ret'.arg) # num_params_run(self).val) =>
          (ret'.raised # "" /\ container' = container)]_vars

\* C6: a from_gateset that raises leaves gate_dim, gateLabels, D_params,
\* E_params, B0_params and storedY0 as they were before the call.
C6_AbortLeavesNoPartialState ==
    [][(ret'.op = "from_gateset" /\ ret'.raised # "") =>
          container' = container]_vars

\* C7: a from_gateset in which a scaling denominator was below 1e-10 (the
\* clamp to 1e10 and its warning) returns normally with a full encoding.
C7_DegeneracyNeverAborts ==
    (ret.op = "from_gateset" /\ ret.warned) =>
        (ret.raised = "" /\ hist = "encoded")

\* C8: to_gateset() changes no field of the container, so to_vector()
\* gives the same before and after it, and a second to_gateset() that
\* returns a gate set returns an equal one.
C8_ToGatesetNoSideEffect ==
    [][ret'.op = "to_gateset" =>
          /\ container' = container
          /\ to_vector_run(self') = to_vector_run(self)
          /\ \A g \in Garbage :
                LET again == to_gateset_run(self', g)
                IN  (ret'.raised = "" /\ again.raised = "") => again = ret'.val]_vars

C8_Witness ==
    /\ ret.op = "to_gateset" /\ ret.raised = "" /\ hist = "edited"
    /\ Len(ret.val.gates) = 2
    /\ to_vector_run(self).raised = ""

\* The fields of the container as from_gateset(GateSet(c)) leaves a fresh
\* one.
EncodingOf(c) == from_gateset_fields(Fresh, FromGatesetRuns[c])

\* C9: from_vector(v) calls with len(v) = num_params() after a successful
\* from_gateset, with to_vector and to_gateset calls between them, leave
\* gate_dim, gateLabels, storedY0, the placeholder B0_params[0], the
\* lengths of E_params, of every D_params[i] and of every B0_params[j],
\* and num_params() as from_gateset set them.
C9_FromVectorKeepsShape ==
    Encoded =>
        LET was == EncodingOf(src)
            d == was.gate_dim.a
        IN  /\ gate_dim = was.gate_dim
            /\ gateLabels = was.gateLabels
            /\ storedY0 = was.storedY0
            /\ B0_params[1] = NoneV
            /\ ~E_params.isNone /\ Len(E_params.a) = d
            /\ Len(D_params) = Len(was.D_params)
            /\ \A i \in 1..Len(D_params) :
                  ~D_params[i].isNone /\ Len(D_params[i].a) = d
            /\ Len(B0_params) = Len(was.B0_params)
            /\ \A j \in 2..Len(B0_params) :
                  /\ ~B0_params[j].isNone
                  /\ Len(B0_params[j].a) = Len(was.B0_params[j].a)
            /\ num_params_run(self) = num_params_run(was)

C9_Witness ==
    /\ hist = "edited" /\ ret.op = "to_gateset" /\ Len(D_params) = 2
    /\ E_params # EncodingOf(src).E_params
    /\ B0_params[2] # EncodingOf(src).B0_params[2]
    /\ Len(B0_params[2].a) = 2

\* C10: after a from_gateset(X) that returned normally every field of the
\* container is what from_gateset(X) gives a fresh container, whatever the
\* container held before.
C10_FromGatesetPure ==
    (ret.op = "from_gateset" /\ ret.raised = "") => self = EncodingOf(ret.arg)

C10_Witness ==
    /\ ret.op = "from_gateset" /\ ret.raised = "" /\ ret.val = "broken"
    /\ self = EncodingOf(ret.arg)
    /\ Len(D_params) = 2

----------------------------------------------------------------------------
(* Properties of the module's functions, under FnSpec *)

\* The call just made, by name.
Called(op) == ret.op = op

\* C11: tile count, even dimension.  An array returned by _get_B_params for
\* Dj_params of an even length d has d * (d - 1) entries (12 for d = 4: 2
\* for each diagonal tile and 4 for each other tile), whatever the
\* conjugate/real tags of the row and column pairs.
C11_TileCountEven ==
    (Called("_get_B_params") /\ ret.raised = "" /\ Len(ret.arg[2]) % 2 = 0) =>
        Len(ret.val) = Len(ret.arg[2]) * (Len(ret.arg[2]) - 1)

C11_Witness ==
    /\ Called("_get_B_params") /\ ret.raised = ""
    /\ Len(ret.arg[2]) = 4 /\ Len(ret.val) = 12
    /\ IsConjTag(ret.arg[2], 1) /\ IsConjTag(ret.arg[2], 2)
    /\ IsConjTag(ret.arg[3], 1) /\ ~IsConjTag(ret.arg[3], 2)

\* C12: tile count, odd dimension.  _get_B_params called with Dj_params of
\* an odd length d >= 3 whose assertions all pass returns an array of
\* d * (d - 1) entries (20 for d = 5: the 12 of the 2x2 tiles, then 2 for
\* each tile of the final row and of the final column).
C12_TileCountOdd ==
    (/\ Called("_get_B_params")
     /\ Len(ret.arg[2]) % 2 = 1 /\ Len(ret.arg[2]) >= 3
     /\ ret.raised # "AssertionError") =>
        /\ ret.raised = ""
        /\ Len(ret.val) = Len(ret.arg[2]) * (Len(ret.arg[2]) - 1)

\* Lines 729-738 for the arguments arg = (Dj_params, D0_params, B0j_params,
\* Y0) of a call that gets as far as line 739: the matrix mx.
ReconstructedMx(arg) ==
    MatMul(MatInv(MatMul(RebuildB0j(arg[1], arg[2], arg[3].a), MatInv(arg[4]))),
           MatMul(constructDj(arg[1]),
                  MatMul(RebuildB0j(arg[1], arg[2], arg[3].a), MatInv(arg[4]))))

\* Every imaginary part of mx is zero within numpy.isclose's tolerance.
ImagWithinTolerance(mx) ==
    \A r, c \in 1..Len(mx) : isclose(CReal(Im(mx[r][c])), CZero)

RealPart(mx) ==
    Tup([r \in 1..Len(mx) |-> Tup([c \in 1..Len(mx) |-> CReal(Re(mx[r][c]))])])

\* C13: reconstruction residue check.  A call of
\* _deparameterize_real_gate_mx that gets as far as the check of mx returns
\* the real part of mx when every imaginary part of mx is zero within
\* tolerance, and raises AssertionError when some imaginary part is not.
C13_ResidueCheck ==
    (/\ Called("_deparameterize_real_gate_mx")
     /\ ret.raised \in {"", "AssertionError"}
     /\ Len(ret.arg[1]) = Len(ret.arg[2])) =>
        IF ImagWithinTolerance(ReconstructedMx(ret.arg))
        THEN ret.raised = "" /\ ret.val = RealPart(ReconstructedMx(ret.arg))
        ELSE ret.raised = "AssertionError"

\* The vector v has the pair structure of D0_params: the two slots of a
\* conjugate pair hold conjugate values, the slots of a real pair and the
\* leftover slot hold real values.
Conforms(v, D0_params) ==
    /\ Len(v) = Len(D0_params)
    /\ \A q \in 1..((Len(D0_params) + 1) \div 2) :
          IF q > NPairs(Len(D0_params)) THEN isreal(v[2 * q - 1])
          ELSE IF IsConjTag(D0_params, q)
          THEN v[2 * q - 1] = CConj(v[2 * q])
          ELSE isreal(v[2 * q - 1]) /\ isreal(v[2 * q])

\* C14: near-zero guard.  _get_delta0_diag called with a vector that has
\* the pair structure of D0_params and a component of magnitude below 1e-10
\* returns normally and prints a warning; the inverse scale of the
\* component's slot is 1e10 and the returned delta0 of the slot 1e-10.
C14_NearZeroGuard ==
    (Called("_get_delta0_diag") /\ Conforms(ret.arg[1], ret.arg[2])) =>
        \A k \in 1..Len(ret.arg[1]) :
            AbsLess(ret.arg[1][k], NEAR_ZERO) =>
                /\ ret.raised = "" /\ ret.warned
                /\ ret.val.inv[k] = CReal(CLAMP)
                /\ ret.val.val[k] = CReal(NEAR_ZERO)

C14_Witness ==
    /\ Called("_get_delta0_diag") /\ Conforms(ret.arg[1], ret.arg[2])
    /\ Len(ret.arg[1]) = 3
    /\ ret.arg[1][3] = CReal(TINY12)
    /\ ~AbsLess(ret.arg[1][1], NEAR_ZERO)
    /\ ret.raised = "" /\ ret.warned
    /\ ret.val.inv[3] = CReal(CLAMP)
    /\ ret.val.val[3] = CReal(NEAR_ZERO)

PairCount(i, pairs) ==
    Cardinality({q \in 1..Len(pairs) : pairs[q][1] = i \/ pairs[q][2] = i})

\* M has exactly one 1 in each row and each column, and 0 elsewhere.
IsPermutationMx(M) ==
    /\ \A r, c \in 1..Len(M) : M[r][c] \in {CZero, COne}
    /\ \A r \in 1..Len(M) : Cardinality({c \in 1..Len(M) : M[r][c] = COne}) = 1
    /\ \A c \in 1..Len(M) : Cardinality({r \in 1..Len(M) : M[r][c] = COne}) = 1

\* C16: the pairing is a partition.  In every call of
\* _parameterize_real_gate_mx no index is a member of two of the conjugate
\* and real pairs, at most one index is left in no pair, no slot past d is
\* written (no IndexError), and the permutation matrix of a call that
\* returns has exactly one 1 in each row and each column.
C16_PairingIsPartition ==
    Called("_parameterize_real_gate_mx") =>
        /\ \A i \in 1..Len(ret.arg.evals) :
              PairCount(i, ret.val.pairs \o ret.val.real_pairs) <= 1
        /\ Cardinality({i \in 1..Len(ret.arg.evals) :
              PairCount(i, ret.val.pairs \o ret.val.real_pairs) = 0}) <= 1
        /\ ret.raised # "IndexError"
        /\ ret.raised = "" => IsPermutationMx(PermMx(ret.val.slot))

\* C17: canonical tie-break.  In the result of a call of
\* _parameterize_real_gate_mx that returns, the first slot of every
\* conjugate pair holds the eigenvector of the member with the larger
\* imaginary part, and the first slot of every real pair the eigenvector of
\* the member with the larger real value.
C17_CanonicalTieBreak ==
    (Called("_parameterize_real_gate_mx") /\ ret.raised = "") =>
        /\ \A q \in 1..Len(ret.val.pairs) :
              RLeq(Im(ret.arg.evals[ret.val.slot[2 * q]]),
                   Im(ret.arg.evals[ret.val.slot[2 * q - 1]]))
        /\ \A q \in 1..Len(ret.val.real_pairs) :
              RLeq(Re(ret.arg.evals[ret.val.slot[2 * (Len(ret.val.pairs) + q)]]),
                   Re(ret.arg.evals[ret.val.slot[2 * (Len(ret.val.pairs) + q) - 1]]))

\* C18: eigenvalue/eigenvector slot consistency.  For a result (D_params, Y)
\* of _parameterize_real_gate_mx, Y is invertible and
\* Y * _constructDj(D_params) * inv(Y) is the matrix given to the call,
\* within numpy.isclose's tolerance.
C18_SlotConsistency ==
    (Called("_parameterize_real_gate_mx") /\ ret.raised = "") =>
        /\ ~Singular(ret.val.Y)
        /\ CloseMx(MatMul(ret.val.Y,
                          MatMul(constructDj(ret.val.D), MatInv(ret.val.Y))),
                   GateFromEig(ret.arg))

\* C19: scaling postcondition.  For a vector v that has the pair structure
\* of D0_params and no component of magnitude below 1e-10,
\* _get_delta0_diag(v, D0_params) returns delta0 with v[i] / delta0[i] = 1
\* within numpy.isclose's tolerance at every index i.
C19_ScalingPostcondition ==
    (/\ Called("_get_delta0_diag")
     /\ Conforms(ret.arg[1], ret.arg[2])
     /\ \A k \in 1..Len(ret.arg[1]) : ~AbsLess(ret.arg[1][k], NEAR_ZERO)) =>
        /\ ret.raised = ""
        /\ \A i \in 1..Len(ret.arg[1]) :
              isclose(CDiv(ret.arg[1][i], ret.val.val[i]), COne)

\* Line 425: B0j, the rows of invYjY0 scaled by inv_deltaj_diag.
ScaledB0j(invYjY0, Dj_params) ==
    MatMul(Diag(Tup([k \in 1..Len(Dj_params) |->
                    InvDeltaJ(invYjY0, Dj_params, k)])),
           invYjY0)

\* D0_params with the values of pair l at the place of pair q: on it the
\* tile at row pair q, column pair l is handled by the tag of column pair l.
ColumnTagged(D0_params, q, l) ==
    Tup([k \in 1..Len(D0_params) |->
        IF PairOf(k) = q /\ q <= NPairs(Len(D0_params))
        THEN D0_params[k + 2 * (l - q)] ELSE D0_params[k]])

\* The parameters of the first t tiles (row-major, n pairs), each tile by
\* the tag of its row pair in Dj_params and of its column pair in D0_params.
RECURSIVE TilesByColumn(_, _, _, _, _)
TilesByColumn(B, Dj_params, D0_params, n, t) ==
    IF t = 0 THEN <<>>
    ELSE TilesByColumn(B, Dj_params, D0_params, n, t - 1)
         \o TileParams(B, Dj_params,
                ColumnTagged(D0_params, ((t - 1) \div n) + 1, ((t - 1) % n) + 1),
                ((t - 1) \div n) + 1, ((t - 1) % n) + 1)

\* B0j rebuilt from the flat array, each tile by the tag of its row pair in
\* Dj_params and of its column pair in D0_params (even d).
RebuildByColumn(Dj_params, D0_params, B0j_params) ==
    Tup([r \in 1..Len(Dj_params) |-> Tup([c \in 1..Len(Dj_params) |->
        TileEntry(Dj_params, ColumnTagged(D0_params, PairOf(r), PairOf(c)),
                  Slice(B0j_params,
                        TileOffset(NPairs(Len(Dj_params)), PairOf(r), PairOf(c)),
                        TileOffset(NPairs(Len(Dj_params)), PairOf(r), PairOf(c))
                            + TileSize(PairOf(r), PairOf(c))),
                  PairOf(r), PairOf(c), r, c)])])

\* The tiles of a call of _get_B_params with arguments arg = (invYjY0,
\* Dj_params, D0_params), of an even length and with a diagonal that passes
\* its assertions, are checked and parameterized by the tag of the row pair
\* in Dj_params and the tag of the column pair in D0_params.
TilesOfBByColumn(arg, raised, val) ==
    /\ raised = "AssertionError" <=>
          \E q, l \in 1..NPairs(Len(arg[2])) :
              TileAssertFails(ScaledB0j(arg[1], arg[2]), arg[2],
                              ColumnTagged(arg[3], q, l), q, l)
    /\ raised = "" =>
          val = TilesByColumn(ScaledB0j(arg[1], arg[2]), arg[2], arg[3],
                              NPairs(Len(arg[2])),
                              NPairs(Len(arg[2])) * NPairs(Len(arg[2])))

\* The same for a call of _deparameterize_real_gate_mx with arguments
\* arg = (Dj_params, D0_params, B0j_params, Y0) that gets as far as line 729.
TilesOfMxByColumn(arg, raised, val) ==
    [raised |-> raised, val |-> val] =
        deparameterize_inverted(arg[1],
            MatMul(RebuildByColumn(arg[1], arg[2], arg[3].a), MatInv(arg[4])))

\* C20: tile case selection.  In _get_B_params and in
\* _deparameterize_real_gate_mx the tile at row pair k, column pair l is
\* handled by the case of the tag of pair k of Dj_params and the tag of
\* pair l of D0_params, for every (k, l), k # l included.
C20_TileCaseSelection ==
    /\ (/\ Called("_get_B_params")
        /\ Len(ret.arg[2]) = Len(ret.arg[3]) /\ Len(ret.arg[2]) % 2 = 0
        /\ \A q \in 1..NPairs(Len(ret.arg[2])) :
              ~DeltaJAssertFails(ret.arg[1], ret.arg[2], ret.arg[3], q)) =>
           TilesOfBByColumn(ret.arg, ret.raised, ret.val)
    /\ (/\ Called("_deparameterize_real_gate_mx")
        /\ Len(ret.arg[1]) = Len(ret.arg[2]) /\ Len(ret.arg[1]) % 2 = 0
        /\ Len(ret.arg[4]) = Len(ret.arg[1]) /\ ~Singular(ret.arg[4])
        /\ ret.raised \in {"", "AssertionError", "LinAlgError"}) =>
           TilesOfMxByColumn(ret.arg, ret.raised, ret.val)

\* The slot paired with slot k in a parameter list: the other slot of a
\* conjugate pair, and k itself in a real pair and for the leftover.
Partner(params, k) ==
    IF PairOf(k) <= NPairs(Len(params)) /\ IsConjTag(params, PairOf(k))
    THEN (IF k % 2 = 1 THEN k + 1 ELSE k - 1)
    ELSE k

\* B has the row structure of Dj_params and the column structure of
\* D0_params: the entry at the partner row and partner column of (r, c) is
\* the conjugate of the entry at (r, c).
ConformsMx(B, Dj_params, D0_params) ==
    \A r, c \in 1..Len(B) :
        isclose(B[Partner(Dj_params, r)][Partner(D0_params, c)],
                CConj(B[r][c]))

\* C21: tile-level decode inverts encode.  For a call of _get_B_params
\* whose scaled matrix B0j has the row structure of Dj_params and the
\* column structure of D0_params (no scaling denominator below 1e-10), the
\* call returns an array and the B0j that _deparameterize_real_gate_mx
\* rebuilds from it equals B0j entry for entry.
C21_DecodeInvertsEncode ==
    (/\ Called("_get_B_params")
     /\ Len(ret.arg[2]) = Len(ret.arg[3])
     /\ \A k \in 1..Len(ret.arg[2]) : ~AbsLess(ret.arg[1][k][k], NEAR_ZERO)
     /\ ConformsMx(ScaledB0j(ret.arg[1], ret.arg[2]), ret.arg[2], ret.arg[3])) =>
        /\ ret.raised = ""
        /\ CloseMx(RebuildB0j(ret.arg[2], ret.arg[3], ret.val),
                   ScaledB0j(ret.arg[1], ret.arg[2]))

\* abs(z) <= 1e10, decided on the squares; FALSE for inf and nan.
WithinClamp(z) == RLeq(CAbs2(z), RMul(CLAMP, CLAMP))

\* C22: clamp bound.  Every inverse scale that a returning call of
\* _get_delta0_diag computes, and every inverse scale that _get_B_params
\* computes when its diagonal assertions pass, has magnitude at most 1e10.
C22_ClampBound ==
    /\ (Called("_get_delta0_diag") /\ ret.raised = "") =>
           \A k \in 1..Len(ret.val.inv) : WithinClamp(ret.val.inv[k])
    /\ (/\ Called("_get_B_params")
        /\ Len(ret.arg[2]) = Len(ret.arg[3])
        /\ \A q \in 1..PairOf(Len(ret.arg[2])) :
              ~DeltaJAssertFails(ret.arg[1], ret.arg[2], ret.arg[3], q)) =>
           \A k \in 1..Len(ret.arg[2]) :
              WithinClamp(InvDeltaJ(ret.arg[1], ret.arg[2], k))

\* Indices i < j of eigenvalues that the scan of lines 196-209 treats as a
\* conjugate (or real degenerate) pair: line 200.
ClosePair(evals, i, j) == i < j /\ isclose(CConj(evals[i]), evals[j])

\* C23: tag invariant of D_params.  In the parameters that
\* _parameterize_real_gate_mx returns, the slots of the q-th conjugate pair
\* (i, j) hold (real part, -|imaginary part|) with a second value <= 0, the
\* slots of the q-th real pair (i, j) hold (mean, |half-difference|) with a
\* second value > 0, and two real eigenvalues that are equal or within
\* tolerance are never both left for the real pairs.
C23_TagInvariant ==
    (Called("_parameterize_real_gate_mx") /\ ret.raised = "") =>
        LET evals == ret.arg.evals
            cp == ret.val.pairs
            rp == ret.val.real_pairs
            D == ret.val.D
        IN  /\ \A q \in 1..Len(cp) :
                  /\ D[2 * q - 1] = Re(evals[cp[q][1]])
                  /\ D[2 * q] = RNeg(RAbs(Im(evals[cp[q][1]])))
                  /\ RLeq(D[2 * q], RZero)
            /\ \A q \in 1..Len(rp) :
                  /\ RAdd(D[2 * (Len(cp) + q) - 1], D[2 * (Len(cp) + q) - 1])
                        = RAdd(Re(evals[rp[q][1]]), Re(evals[rp[q][2]]))
                  /\ RAdd(D[2 * (Len(cp) + q)], D[2 * (Len(cp) + q)])
                        = RAbs(RSub(Re(evals[rp[q][1]]), Re(evals[rp[q][2]])))
                  /\ RLess(RZero, D[2 * (Len(cp) + q)])
                  /\ ~ClosePair(evals, rp[q][1], rp[q][2])
            /\ \A i, j \in 1..Len(evals) :
                  (ClosePair(evals, i, j) /\ isreal(evals[i])) =>
                      InPair(i, cp) \/ InPair(j, cp)

\* A returned call with a degenerate real pair stored as a conjugate pair
\* and two distinct reals stored as a real pair.
C23_Witness ==
    /\ Called("_parameterize_real_gate_mx") /\ ret.raised = ""
    /\ Len(ret.val.pairs) = 1 /\ Len(ret.val.real_pairs) = 1
    /\ isreal(ret.arg.evals[ret.val.pairs[1][1]])
    /\ ret.val.D[2] = RZero
    /\ RLess(RZero, ret.val.D[4])

\* C24: flat-array order.  A call of _get_B_params whose assertions all
\* pass returns an array in which the block of the 2x2 tile at row pair q,
\* column pair l lies where _deparameterize_real_gate_mx reads it: tiles
\* row-major, 2 values for q = l and 4 otherwise; for an odd d the tiles of
\* the final row and of the final column follow with 2 values each, and
\* the array has exactly the number of entries the decoder consumes.
C24_FlatArrayOrder ==
    (/\ Called("_get_B_params")
     /\ Len(ret.arg[2]) = Len(ret.arg[3])
     /\ ret.raised # "AssertionError") =>
        LET d == Len(ret.arg[2])
            n == NPairs(d)
        IN  /\ ret.raised = ""
            /\ \A q, l \in 1..n :
                  Slice(ret.val, TileOffset(n, q, l),
                        TileOffset(n, q, l) + TileSize(q, l))
                      = TileParams(ScaledB0j(ret.arg[1], ret.arg[2]),
                                   ret.arg[2], ret.arg[3], q, l)
            /\ Len(ret.val) = n * (4 * n - 2) + (IF d % 2 = 1 THEN 4 * n ELSE 0)

\* The indices left unpaired by the scan of a call of
\* _parameterize_real_gate_mx (lines 213-214).
Unpaired(r) == Remaining(Len(r.arg.evals), r.val.pairs)

\* C25: malformed eigenstructure is fatal.  When an index left unpaired by
\* the scan carries a non-real eigenvalue, _parameterize_real_gate_mx
\* raises AssertionError and returns no parameters; when every unpaired
\* index carries a real eigenvalue the assertion does not fire.
C25_MalformedIsFatal ==
    Called("_parameterize_real_gate_mx") =>
        IF \E q \in 1..Len(Unpaired(ret)) :
               ~isreal(ret.arg.evals[Unpaired(ret)[q]])
        THEN ret.raised = "AssertionError" /\ ret.val.D = <<>>
        ELSE ret.raised # "AssertionError"

\* A call whose scan leaves a non-real eigenvalue unpaired
C25_Witness ==
    /\ Called("_parameterize_real_gate_mx")
    /\ \E q \in 1..Len(Unpaired(ret)) :
           ~isreal(ret.arg.evals[Unpaired(ret)[q]])
    /\ ret.raised = "AssertionError"

----------------------------------------------------------------------------
(* Properties of the container's shape and lifecycle, under Spec *)

\* The lists of container s have one entry per gate label, B0_params[0] is
\* the None placeholder and every later B0_params[j] is an array.
Shape(s) ==
    /\ Len(s.gateLabels) >= 1
    /\ Len(s.D_params) = Len(s.gateLabels)
    /\ Len(s.B0_params) = Len(s.gateLabels)
    /\ s.B0_params[1] = NoneV
    /\ \A j \in 2..Len(s.B0_params) : ~s.B0_params[j].isNone

C26Step ==
    /\ (ret'.op = "from_gateset" /\ ret'.raised = "") => Shape(self)'
    /\ (ret'.op = "from_vector" /\ Shape(self)) => Shape(self)'

\* C26: shape invariant of an Encoded container.  After every from_gateset
\* that returns normally, and after every from_vector on a container of
\* that shape (whatever the length of the vector), len(D_params) =
\* len(B0_params) = len(gateLabels), B0_params[0] is None and B0_params[j]
\* is an array for every j >= 1.
C26_ShapeInvariant == [][C26Step]_vars

\* from_vector has returned on an encoded container for a vector whose
\* length is not num_params(), and the shape is kept.
C26_Witness ==
    /\ ret.op = "from_vector" /\ ret.raised = "" /\ ret.val = "encoded"
    /\ hist = "broken"
    /\ Len(gateLabels) = 2 /\ Shape(self)

\* The container is Uninitialized: it has no gate_dim.
Uninitialized == gate_dim.isNone

C27Step ==
    /\ (Uninitialized /\ ret'.op \in {"to_vector", "num_params",
                                      "from_vector", "to_gateset"}) =>
           /\ ret'.raised # ""
           /\ self' = Fresh
    /\ Uninitialized => self = Fresh
    /\ (Uninitialized /\ ~Uninitialized') => ret'.op = "from_gateset"
    /\ ~Uninitialized => ~Uninitialized'

\* C27: lifecycle guard.  On a fresh container to_vector, num_params,
\* from_vector and to_gateset each raise and leave every field as __init__
\* set it; only from_gateset gives the container a gate_dim, and no
\* operation takes it away.
C27_LifecycleGuard == [][C27Step]_vars

\* from_vector has raised on a fresh container for a non-empty vector
C27_Witness ==
    /\ ret.op = "from_vector" /\ ret.raised = "TypeError" /\ Len(ret.arg) = 1
    /\ Uninitialized /\ self = Fresh /\ hist = "fresh"

\* (n - 1) * d^2 + 2 * d
MinimalCount(n, d) == (n - 1) * d * d + 2 * d

\* C28: minimal parameter count.  For an Encoded container with n >= 1
\* gates of dimension d, num_params() returns d + n*d + (n-1)*d*(d-1) =
\* (n-1)*d^2 + 2*d.
C28_MinimalParamCount ==
    Encoded =>
        /\ Len(gateLabels) >= 1
        /\ num_params_run(self) =
               [raised |-> "",
                val |-> MinimalCount(Len(gateLabels), gate_dim.a)]
        /\ ret.op = "num_params" =>
               /\ ret.raised = ""
               /\ ret.val = gate_dim.a + Len(gateLabels) * gate_dim.a
                    + (Len(gateLabels) - 1) * gate_dim.a * (gate_dim.a - 1)

\* num_params() has returned 8 for two gates of dimension 2
C28_Witness ==
    /\ Encoded /\ ret.op = "num_params" /\ ret.raised = ""
    /\ Len(gateLabels) = 2 /\ gate_dim = Some(2) /\ ret.val = 8

----------------------------------------------------------------------------
(* The measurement vector, under FnSpec *)

\* ET has the structure of D0_params: a conjugate pair of entries for a
\* conjugate pair of D0_params, two real entries for a real pair, a real
\* entry for the leftover.
ConformsET(ET, D0_params) ==
    /\ Len(ET) = Len(D0_params)
    /\ \A k \in 1..Len(ET) :
          IF PairOf(k) <= NPairs(Len(D0_params))
             /\ IsConjTag(D0_params, PairOf(k))
          THEN ET[Partner(D0_params, k)] = CConj(ET[k])
          ELSE isreal(ET[k])

\* C29: measurement-vector round trip.  For ET conforming to D0_params,
\* _get_ET_params returns E_params and _get_ETilde_vector(E_params,
\* D0_params) equals ET entry for entry; for an ET that passes the
\* assertions of _get_ET_params only within numpy.isclose's tolerance the
\* two are equal within that tolerance.
C29_MeasurementRoundTrip ==
    (Called("_get_ET_params") /\ Len(ret.arg[1]) = Len(ret.arg[2])) =>
        /\ ConformsET(ret.arg[1], ret.arg[2]) => ret.raised = ""
        /\ ret.raised = "" =>
              \A g \in Garbage :
                  LET back == get_ETilde_vector(ret.val, ret.arg[2], g)
                  IN  /\ back.raised = ""
                      /\ CloseVec(back.val, ret.arg[1])
                      /\ ConformsET(ret.arg[1], ret.arg[2]) =>
                             back.val = ret.arg[1]

\* A returned call for a conforming ET of four entries, a conjugate pair
\* and then a real pair, that the round trip gives back.
C29_Witness ==
    /\ Called("_get_ET_params") /\ ret.raised = ""
    /\ ConformsET(ret.arg[1], ret.arg[2])
    /\ Len(ret.arg[1]) = 4
    /\ IsConjTag(ret.arg[2], 1) /\ ~IsConjTag(ret.arg[2], 2)
    /\ ~isreal(ret.arg[1][1])
    /\ get_ETilde_vector(ret.val, ret.arg[2], CZero).val = ret.arg[1]

----------------------------------------------------------------------------
(* The diamond-norm functions without the solver, under FnSpec *)

\* C30: absent diamond-norm capability.  When cvxpy cannot be imported,
\* Half_diamond_norm and Gatestring_half_diamond_norm are None, the
\* gatesetFn given to evaluate for them is None, and evaluate returns a
\* ReportableQty whose value is nan, without raising and without calling a
\* method of cri, whatever cri and verbosity are.
C30_AbsentDiamondNorm ==
    /\ Half_diamond_norm(FALSE) = NoneV
    /\ Gatestring_half_diamond_norm(FALSE) = NoneV
    /\ (/\ Called("evaluate")
        /\ ~ret.arg.cvxpy
        /\ ret.arg.name \in {"Half_diamond_norm",
                             "Gatestring_half_diamond_norm"}) =>
           /\ ret.val.fn = NoneV
           /\ ret.raised = ""
           /\ ~ret.val.out.val.isNone
           /\ RIsNaN(ret.val.out.val.a.value)
           /\ ret.val.out.consulted = <<>>

\* evaluate has returned nan for Half_diamond_norm without the solver,
\* given a cri whose methods raise.
C30_Witness ==
    /\ Called("evaluate") /\ ~ret.arg.cvxpy
    /\ ret.arg.name = "Half_diamond_norm"
    /\ ~ret.arg.cri.isNone /\ ret.arg.cri.a.error # ""
    /\ ret.raised = "" /\ ret.val.out.val.a.value = RNaN
====
